---- MODULE Spec2Model ----
(***************************************************************************)
(* A model of tdx2db: the 5-minute bar reader and its 15/30/60-minute      *)
(* resampling (src/src/reader.py), the indicator calculator                *)
(* (src/src/processor.py), the catalog scanner (reader.get_stock_list),    *)
(* the command line (src/src/cli.py) and the batched database writer       *)
(* (src/src/storage.py).                                                   *)
(*                                                                         *)
(* Tables (pandas DataFrames) are sequences of records, one record per     *)
(* row.  Times are minutes counted from midnight of day 0.  Prices are     *)
(* scaled by 100 and kept as integers; a missing value (pandas NaN) is     *)
(* the value NaN below, outside the range of every real observation.       *)
(***************************************************************************)
EXTENDS Integers, Sequences, FiniteSets, TLC

VARIABLES
    lc5_exists,   \* whether the symbol's .lc5 file exists
    lc5,          \* the records lc_min_reader.get_df decodes from it, in file order
    pc,           \* "decode" while the file is being laid out, then "done"
    entry,        \* the entry point that ran: "", "read_min_data", "process_single"
    raised,       \* the exception that left the entry point ("" when none)
    data_list,    \* read_min_data's return value: <<15min, 30min, 60min>>
    ret,          \* process_single_stock_min_data's return value
    saved,        \* the save_minute_data calls it made, in order
    log,          \* the log records written, in order
    batch,        \* the table handed to the DataProcessor
    processed,    \* what process_daily_data / process_min_data returned for it
    proc_done,    \* "" until a processor entry point ran, then its name
    sz_dir, sh_dir,   \* the stems of the *.day files of vipdoc/sz/lday and vipdoc/sh/lday
    sz_exists, sh_exists,  \* whether these directories exist
    stocks,       \* get_stock_list's return value (rows of code, name)
    cat_state,    \* "scan" while files are laid out, "ok" / "FileNotFoundError" after
    series,       \* the table handed to filter_data / filter_data_min
    filtered,     \* what the filter returned for it
    flt_call,     \* the filter call made: its name ("" before) and bounds
    args,         \* the parsed command line of main()
    disk,         \* stem of a symbol |-> the kind of its data file under vipdoc
    catalog,      \* the stocks a full-catalog run obtained: their codes, in order
    run_pc,       \* main()'s position: "start", "loop", "batch", "exit"
    cur,          \* the place in the catalog of the symbol the loop is at
    stage,        \* how far that symbol got
    work,         \* the tables in hand for it (for the daily run: all_data)
    events,       \* what happened to which symbol so far, in order
    calls,        \* the save_*_data calls made so far, in order
    run_log,      \* the log records written so far, in order
    batch_ret,    \* how the full-catalog driver ended ("" while it runs)
    exit_code,    \* main()'s return value (NaN while it runs)
    tdx_path,     \* config.tdx_path as main() found it ("" before it ran)
    storage,      \* whether DataStorage() was constructed
    frame,        \* the table a caller hands to a DataProcessor function
    frame_was,    \* that table as it was when the call was made
    frame_out,    \* what the function returned
    frame_call,   \* the function called ("" before the call)
    db_df,        \* save_to_database's df: its rows, numbered in input order
    db_batch_size,\* its batch_size
    db_pc,        \* "idle", "loop" (between two batches), "done"
    db_i,         \* the batches written so far in the loop
    db_written,   \* the to_sql calls that succeeded: the rows of each, in order
    db_ret        \* its return value ("" until it returns)

aggVars  == <<lc5_exists, lc5, pc, entry, raised, data_list, ret, saved, log>>
procVars == <<batch, processed, proc_done>>
catVars  == <<sz_dir, sh_dir, sz_exists, sh_exists, stocks, cat_state>>
fltVars  == <<series, filtered, flt_call>>
runVars  == <<args, disk, catalog, run_pc, cur, stage, work, events, calls,
               run_log, batch_ret, exit_code, tdx_path, storage>>
frameVars == <<frame, frame_was, frame_out, frame_call>>
dbVars   == <<db_df, db_batch_size, db_pc, db_i, db_written, db_ret>>
restVars == <<frameVars, dbVars>>
vars     == <<aggVars, procVars, catVars, fltVars, runVars, restVars>>

----------------------------------------------------------------------------
(* Values *)

\* pandas' missing value in a numeric column
NaN == -1
\* pandas' missing value in an object column (code); a code is the sequence
\* of its characters
NoCode == <<"NaN">>
\* no --start_date
NoDate == NaN

MinutesPerDay == 24 * 60

\* bound: the records of the .lc5 file
MaxBars == 4

\* hh:mm of day d as a time stamp
At(d, hh, mm) == d * MinutesPerDay + hh * 60 + mm

Record5(dt, o, h, l, c, am, v) ==
    [datetime |-> dt, open |-> o, high |-> h, low |-> l, close |-> c,
     amount |-> am, volume |-> v]

\* The records a .lc5 file may hold.  The first four are the bars of the
\* 09:35-09:50 example; the others have a missing field, a duplicate time
\* stamp, an overnight gap and a bar of the half hour before.
BarPool ==
    { Record5(At(0, 9, 35), 1000, 1020,  990, 1010, 10, 100),
      Record5(At(0, 9, 40), 1010, 1030, 1000, 1020, 15, 150),
      Record5(At(0, 9, 45), 1020, 1020, 1000, 1005,  8,  80),
      Record5(At(0, 9, 50), 1005, 1015, 1000, 1010,  9,  90),
      Record5(At(0, 9, 30),  NaN, 1040,  980, 1000,  5,  50),
      Record5(At(0, 9, 45),  995, 1000,  985,  NaN,  6,  60),
      Record5(At(1, 9, 35), 1100, 1110, 1090, 1105,  4,  40),
      Record5(At(0, 9, 20),  990, 1005,  985, 1000,  7,  70) }

\* the stem of the .lc5 file of vipdoc/sz/fzline, when it exists
Lc5Stem == <<"s", "z", "0", "0", "0", "0", "0", "1">>

\* the (market, code) arguments of the reader's entry points: a bare code,
\* the catalog's form of it, and a symbol of the other market
Requests ==
    { <<0, <<"0", "0", "0", "0", "0", "1">>>>,
      <<0, <<"s", "z", "0", "0", "0", "0", "0", "1">>>>,
      <<1, <<"6", "0", "0", "0", "0", "0">>>> }

\* the start_date arguments: none, or midnight of day 1
StartDates == { NoDate, 1 }

----------------------------------------------------------------------------
(* Column reductions of DataFrame.resample(..).agg(..): NaN is skipped *)

Present(vals) == { vals[i] : i \in DOMAIN vals } \ { NaN }

\* 'first': the first non-missing entry, NaN when there is none
ColFirst(vals, na) ==
    IF \E i \in DOMAIN vals : vals[i] # na
    THEN vals[CHOOSE i \in DOMAIN vals :
                /\ vals[i] # na
                /\ \A j \in DOMAIN vals : j < i => vals[j] = na]
    ELSE na

\* 'last': the last non-missing entry, NaN when there is none
ColLast(vals, na) ==
    IF \E i \in DOMAIN vals : vals[i] # na
    THEN vals[CHOOSE i \in DOMAIN vals :
                /\ vals[i] # na
                /\ \A j \in DOMAIN vals : j > i => vals[j] = na]
    ELSE na

\* 'max' and 'min' over the non-missing entries
ColMax(vals) ==
    IF Present(vals) = {} THEN NaN
    ELSE CHOOSE m \in Present(vals) : \A x \in Present(vals) : x <= m

ColMin(vals) ==
    IF Present(vals) = {} THEN NaN
    ELSE CHOOSE m \in Present(vals) : \A x \in Present(vals) : m <= x

\* 'sum' over the non-missing entries (min_count = 0: an empty sum is 0),
\* added up by halves
RECURSIVE SumRange(_, _, _)
SumRange(vals, lo, hi) ==
    IF lo > hi THEN 0
    ELSE IF lo = hi THEN (IF vals[lo] = NaN THEN 0 ELSE vals[lo])
    ELSE LET mid == (lo + hi) \div 2
         IN  SumRange(vals, lo, mid) + SumRange(vals, mid + 1, hi)

ColSum(vals) == SumRange(vals, 1, Len(vals))

\* a table or column with every entry worked out
Table(f) == SubSeq(f, 1, Len(f))

Column(df, name) == [i \in 1..Len(df) |-> df[i][name]]

----------------------------------------------------------------------------
(* DataFrame.resample(freq) on a DatetimeIndex *)

\* The resampler first sorts the table by its index with a stable sort.
SortRank(df, i) ==
    1 + Cardinality({ j \in 1..Len(df) :
                        \/ df[j].datetime < df[i].datetime
                        \/ (df[j].datetime = df[i].datetime /\ j < i) })

SortByIndex(df) ==
    [k \in 1..Len(df) |-> df[CHOOSE i \in 1..Len(df) : SortRank(df, i) = k]]

\* origin = 'start_day': midnight of the first time stamp's day
Origin(sorted) == (sorted[1].datetime \div MinutesPerDay) * MinutesPerDay

FloorTo(t, origin, W) == origin + ((t - origin) \div W) * W

\* one label per row, in row order
BinLabelPerRow(sorted, W) ==
    [k \in 1..Len(sorted) |-> FloorTo(sorted[k].datetime, Origin(sorted), W)]

\* The bin labels (label = 'left'): every W minutes from the bin of the first
\* time stamp to the bin of the last one, empty bins included.
BinLabels(sorted, W) ==
    LET o     == Origin(sorted)
        first == FloorTo(sorted[1].datetime, o, W)
        last  == FloorTo(sorted[Len(sorted)].datetime, o, W)
    IN  [k \in 1..((last - first) \div W + 1) |-> first + (k - 1) * W]

\* closed = 'right': the bin labelled L holds the rows with L < datetime <= L + W
InBinRight(t, L, W) == L < t /\ t <= L + W

\* closed = 'left': the bin labelled L holds the rows with L <= datetime < L + W
InBin(t, L, W) == L <= t /\ t < L + W

BinMembers(sorted, L, W) ==
    SelectSeq(sorted, LAMBDA r : InBin(r.datetime, L, W))

\* .agg({'open': 'first', 'high': 'max', 'low': 'min', 'close': 'last',
\*       'volume': 'sum', 'amount': 'sum', 'code': 'first', 'market': 'first'})
\* 'open': 'last' in place of 'first'
AggOpenLast(m) == ColLast(Column(m, "open"), NaN)
AggOpen(m)   == ColFirst(Column(m, "open"), NaN)
AggHigh(m)   == ColMax(Column(m, "high"))
AggLow(m)    == ColMin(Column(m, "low"))
\* 'close': 'first' in place of 'last'
AggCloseFirst(m) == ColFirst(Column(m, "close"), NaN)
AggClose(m)  == ColLast(Column(m, "close"), NaN)
AggVolume(m) == ColSum(Column(m, "volume"))
AggAmount(m) == ColSum(Column(m, "amount"))

AggRow(m, L) ==
    [datetime |-> L,
     open     |-> AggOpen(m),
     high     |-> AggHigh(m),
     low      |-> AggLow(m),
     close    |-> AggClose(m),
     amount   |-> AggAmount(m),
     volume   |-> AggVolume(m),
     code     |-> ColFirst(Column(m, "code"), NoCode),
     market   |-> ColFirst(Column(m, "market"), NaN)]

\* 'date': 'first' is aggregated too in process_single_stock_min_data
AggRowDate(m, L) ==
    AggRow(m, L) @@ [date |-> ColFirst(Column(m, "date"), NaN)]

ResampleAgg(df, W, withDate) ==
    IF Len(df) = 0 THEN <<>>
    ELSE LET sorted == SortByIndex(df)
             labels == BinLabels(sorted, W)
         IN  [k \in 1..Len(labels) |->
                 IF withDate
                 THEN AggRowDate(BinMembers(sorted, labels[k], W), labels[k])
                 ELSE AggRow(BinMembers(sorted, labels[k], W), labels[k])]

\* DataFrame.dropna(): rows with a missing value in any column are dropped
RowHasNaN(r) ==
    \/ \E f \in (DOMAIN r) \ {"code"} : r[f] = NaN
    \/ r.code = NoCode

\* no row is dropped
DropnaNone(df) == df

Dropna(df) == SelectSeq(df, LAMBDA r : ~RowHasNaN(r))

Resample(df, W, withDate) == Dropna(ResampleAgg(df, W, withDate))

----------------------------------------------------------------------------
(* DataProcessor (src/src/processor.py) *)

\* bounds of the processor's input tables
MaxRows == 5
SeedLen == 2

\* the column maN is computed with rolling(window=MaWindow[N])
MaWindow ==
    (13 :> 13) @@ (21 :> 21) @@ (34 :> 34) @@ (55 :> 55) @@ (89 :> 89) @@
    (144 :> 144) @@ (233 :> 233) @@ (5 :> 5) @@ (10 :> 10) @@ (60 :> 60) @@
    (250 :> 250)

Periods == DOMAIN MaWindow

\* a moving average is the pair (sum of the window, observations in it);
\* the missing average has no observation
MaNaN == [sum |-> 0, n |-> 0]

NumericColumns == <<"open", "high", "low", "close", "volume", "amount">>

\* Series.ffill() at row i of column c: the entry itself when it is present,
\* else the last entry present before it, else missing
RECURSIVE LastBefore(_, _, _)
LastBefore(df, c, i) ==
    IF df[i][c] # NaN THEN df[i][c] ELSE LastBefore(df, c, i - 1)

FFillAt(df, c, i) ==
    IF \A j \in 1..i : df[j][c] = NaN THEN NaN ELSE LastBefore(df, c, i)

\* for col in numeric_columns:
\*     if col in processed_df.columns: processed_df[col] = processed_df[col].ffill()
\* (every table of the model has the six numeric columns)
FillColumns(df) ==
    Table([i \in 1..Len(df) |->
            [df[i] EXCEPT !.open   = FFillAt(df, "open", i),
                          !.high   = FFillAt(df, "high", i),
                          !.low    = FFillAt(df, "low", i),
                          !.close  = FFillAt(df, "close", i),
                          !.volume = FFillAt(df, "volume", i),
                          !.amount = FFillAt(df, "amount", i)]])

\* rolling(window=w, min_periods=1).mean(): a mean of what the window holds
RollingMeanMin1(x, w) ==
    [i \in 1..Len(x) |->
        LET win  == SubSeq(x, IF i < w THEN 1 ELSE i - w + 1, i)
            nobs == Cardinality({ k \in 1..Len(win) : win[k] # NaN })
        IN  IF nobs >= 1 THEN [sum |-> ColSum(win), n |-> nobs] ELSE MaNaN]

\* Series.rolling(window=w).mean(): min_periods is the window; the entry is
\* missing unless the window holds w observations
RollingMean(x, w) ==
    [i \in 1..Len(x) |->
        IF i < w THEN MaNaN
        ELSE LET win  == SubSeq(x, i - w + 1, i)
                 nobs == Cardinality({ k \in 1..Len(win) : win[k] # NaN })
             IN  IF nobs >= w THEN [sum |-> ColSum(win), n |-> nobs]
                 ELSE MaNaN]

\* groupby('code'): the close column of the rows of row i's code, in table
\* order, and the place of row i among them
GroupClose(df, i) ==
    Column(SelectSeq(df, LAMBDA r : r.code = df[i].code), "close")

PosInGroup(df, i) ==
    Cardinality({ j \in 1..i : df[j].code = df[i].code })

\* processed_df['maN'] = processed_df.groupby('code')['close']
\*                           .transform(lambda x: x.rolling(window=w).mean())
\* if all(col in processed_df.columns for col in ['close', 'volume'])
AddIndicators(df) ==
    IF ~({"close", "volume"} \subseteq DOMAIN df[1]) THEN df
    ELSE Table([i \in 1..Len(df) |->
            LET x == Table(GroupClose(df, i))
                k == PosInGroup(df, i)
            IN  df[i] @@ [ma |-> [p \in Periods |->
                                    RollingMean(x, MaWindow[p])[k]]]])

\* (the filled table is worked out once, then the indicators are added to it)
ProcessDailyData(df) ==
    IF Len(df) = 0 THEN df
    ELSE CHOOSE out \in { AddIndicators(filled) :
                              filled \in { FillColumns(df) } } : TRUE

\* the indicators first, the forward fill after them
ProcessMinDataFillLast(df) ==
    IF Len(df) = 0 THEN df ELSE FillColumns(AddIndicators(df))

ProcessMinData(df) ==
    IF Len(df) = 0 THEN df
    ELSE CHOOSE out \in { AddIndicators(filled) :
                              filled \in { FillColumns(df) } } : TRUE

\* DataProcessor.filter_data: pd.to_datetime(start_date) is midnight of that
\* day; codes is the sequence of codes asked for (<<>> for None)
FilterData(df, start_date, end_date, codes) ==
    IF Len(df) = 0 THEN df
    ELSE LET byDate ==
                 IF "date" \in DOMAIN df[1]
                 THEN LET from == IF start_date # NoDate
                                  THEN SelectSeq(df, LAMBDA r :
                                           r.date >= start_date * MinutesPerDay)
                                  ELSE df
                      IN  IF end_date # NoDate
                          THEN SelectSeq(from, LAMBDA r :
                                   r.date <= end_date * MinutesPerDay)
                          ELSE from
                 ELSE df
             byTime ==
                 IF Len(byDate) > 0 /\ "datetime" \in DOMAIN df[1]
                 THEN LET from == IF start_date # NoDate
                                  THEN SelectSeq(byDate, LAMBDA r :
                                           r.datetime >= start_date * MinutesPerDay)
                                  ELSE byDate
                      IN  IF end_date # NoDate
                          THEN SelectSeq(from, LAMBDA r :
                                   r.datetime <= end_date * MinutesPerDay)
                          ELSE from
                 ELSE byDate
         IN  IF codes # <<>> /\ "code" \in DOMAIN df[1]
             THEN SelectSeq(byTime, LAMBDA r :
                      \E n \in 1..Len(codes) : codes[n] = r.code)
             ELSE byTime

\* DataProcessor.filter_data_min
FilterDataMin(df, start_date, end_date) ==
    IF Len(df) = 0 THEN df
    ELSE IF "date" \notin DOMAIN df[1] THEN df
    ELSE LET from == IF start_date # NoDate
                     THEN SelectSeq(df, LAMBDA r :
                              r.datetime >= start_date * MinutesPerDay)
                     ELSE df
         IN  IF end_date # NoDate
             THEN SelectSeq(from, LAMBDA r :
                      r.datetime <= end_date * MinutesPerDay)
             ELSE from

----------------------------------------------------------------------------
(* TdxDataReader: the 5-minute entry points (src/src/reader.py) *)

MarketFolder(market) == IF market = 0 THEN <<"s", "z">> ELSE <<"s", "h">>

\* if (len(code)>6): code = code[-6:]
Last6(code) ==
    IF Len(code) > 6 THEN SubSeq(code, Len(code) - 5, Len(code)) ELSE code

\* file_path.exists() for the stem the entry point builds
Lc5Found(stem) == lc5_exists /\ stem = Lc5Stem

\* data = self.lc_min_reader.get_df(..); data['code'] = code; data['market'] = market
Decoded(market, code) ==
    [i \in 1..Len(lc5) |-> lc5[i] @@ [code |-> code, market |-> market]]

Info(msg)    == [level |-> "info", msg |-> msg]
Error(msg)   == [level |-> "error", msg |-> msg]

\* storage.save_minute_data(df, freq=freq, to_csv=False, to_db=True): the call;
\* what it returns is dropped by the caller
SaveCall(df, freq) ==
    [freq |-> freq, to_csv |-> FALSE, to_db |-> TRUE, df |-> df]

\* a file is laid out record by record, each record of the pool at most once
CreateFile ==
    /\ pc = "decode"
    /\ ~lc5_exists
    /\ lc5_exists' = TRUE
    /\ UNCHANGED <<lc5, pc, entry, raised, data_list, ret, saved, log>>
    /\ UNCHANGED <<procVars, catVars, fltVars, runVars, restVars>>

WriteRecord(b) ==
    /\ pc = "decode"
    /\ lc5_exists
    /\ Len(lc5) < MaxBars
    /\ \A i \in 1..Len(lc5) : lc5[i] # b
    /\ lc5' = Append(lc5, b)
    /\ UNCHANGED <<lc5_exists, pc, entry, raised, data_list, ret, saved, log>>
    /\ UNCHANGED <<procVars, catVars, fltVars, runVars, restVars>>

\* TdxDataReader.read_min_data(market, code)
ReadMinData(market, code) ==
    /\ pc = "decode"
    /\ pc' = "done"
    /\ entry' = "read_min_data"
    /\ IF ~Lc5Found(MarketFolder(market) \o code)
       THEN /\ raised' = "FileNotFoundError"
            /\ UNCHANGED <<data_list, log>>
       ELSE LET data == Decoded(market, code)
            IN  IF Len(data) = 0
                THEN \* logger.debug(f"... {data.index[0]} ~ {data.index[-1]}")
                     /\ raised' = "IndexError"
                     /\ log' = Append(log, Info("reading"))
                     /\ UNCHANGED data_list
                ELSE /\ raised' = ""
                     /\ log' = Append(log, Info("reading"))
                     /\ data_list' = << Resample(data, 15, FALSE),
                                        Resample(data, 30, FALSE),
                                        Resample(data, 60, FALSE) >>
    /\ UNCHANGED <<lc5_exists, lc5, ret, saved>>
    /\ UNCHANGED <<procVars, catVars, fltVars, runVars, restVars>>

\* TdxDataReader.read_5min_data(market, code): the exception it raises ("" when
\* it returns) and the table it returns
Read5MinRaises(market, code) ==
    IF ~Lc5Found(MarketFolder(market) \o Last6(code)) THEN "FileNotFoundError"
    ELSE IF Len(lc5) = 0 THEN "IndexError"
    ELSE ""

Read5MinData(market, code) == Decoded(market, Last6(code))

\* df_5min['date'] = df_5min['datetime'].dt.date
WithDate(df) ==
    [i \in 1..Len(df) |-> df[i] @@ [date |-> df[i].datetime \div MinutesPerDay]]

\* TdxDataReader.process_single_stock_min_data(market, code, storage, processor,
\* start_date)
ProcessSingleStockMinData(market, code, start_date) ==
    /\ pc = "decode"
    /\ pc' = "done"
    /\ entry' = "process_single"
    /\ raised' = ""
    /\ IF Read5MinRaises(market, code) = "FileNotFoundError"
       THEN /\ ret' = FALSE
            /\ log' = Append(log, Error("FileNotFoundError"))
            /\ UNCHANGED saved
       ELSE IF Read5MinRaises(market, code) = "IndexError"
       THEN /\ ret' = FALSE
            /\ log' = log \o << Info("reading"), Error("IndexError") >>
            /\ UNCHANGED saved
       ELSE LET df_5min == WithDate(Read5MinData(market, code))
                p5  == ProcessMinData(df_5min)
                p15 == ProcessMinData(Resample(df_5min, 15, TRUE))
                p30 == ProcessMinData(Resample(df_5min, 30, TRUE))
                p60 == ProcessMinData(Resample(df_5min, 60, TRUE))
                keep(df) == IF start_date # NoDate
                            THEN FilterDataMin(df, start_date, NoDate)
                            ELSE df
            IN  /\ ret' = TRUE
                /\ saved' = saved \o << SaveCall(keep(p5), 5),
                                        SaveCall(keep(p15), 15),
                                        SaveCall(keep(p30), 30),
                                        SaveCall(keep(p60), 60) >>
                /\ log' = log \o << Info("reading"), Info("stored") >>
    /\ UNCHANGED <<lc5_exists, lc5, data_list>>
    /\ UNCHANGED <<procVars, catVars, fltVars, runVars, restVars>>

----------------------------------------------------------------------------
(* The processor's entry points on a table of its own *)

Row(code, o, h, l, c, v, am) ==
    [code |-> code, open |-> o, high |-> h, low |-> l, close |-> c,
     volume |-> v, amount |-> am]

CodeA == <<"0", "0", "0", "0", "0", "1">>
CodeB == <<"6", "0", "0", "0", "0", "0">>

\* the rows of the processor's input: two symbols, with and without
\* missing fields
RowPool ==
    { Row(CodeA, 10, 12,  9, 11, 100, 1000),
      Row(CodeA, 20, 22, 19, 21, 200, 4000),
      Row(CodeA, NaN, NaN, NaN, NaN, NaN, NaN),
      Row(CodeB, 50, 52, 49, 51, 500, 9000),
      Row(CodeB, NaN, NaN, NaN, NaN, NaN, NaN) }

\* a long table: the rows of a short one over and over
LongLen == 251

Cycle(seed, n) == [i \in 1..n |-> seed[((i - 1) % Len(seed)) + 1]]

AppendRow(r) ==
    /\ proc_done = ""
    /\ Len(batch) < MaxRows
    /\ batch' = Append(batch, r)
    /\ UNCHANGED <<processed, proc_done>>
    /\ UNCHANGED <<aggVars, catVars, fltVars, runVars, restVars>>

RepeatRows ==
    /\ proc_done = ""
    /\ Len(batch) >= 1
    /\ Len(batch) <= SeedLen
    /\ batch' = Cycle(batch, LongLen)
    /\ UNCHANGED <<processed, proc_done>>
    /\ UNCHANGED <<aggVars, catVars, fltVars, runVars, restVars>>

CallProcessDailyData ==
    /\ proc_done = ""
    /\ processed' = ProcessDailyData(batch)
    /\ proc_done' = "process_daily_data"
    /\ UNCHANGED batch
    /\ UNCHANGED <<aggVars, catVars, fltVars, runVars, restVars>>

CallProcessMinData ==
    /\ proc_done = ""
    /\ processed' = ProcessMinData(batch)
    /\ proc_done' = "process_min_data"
    /\ UNCHANGED batch
    /\ UNCHANGED <<aggVars, catVars, fltVars, runVars, restVars>>

----------------------------------------------------------------------------
(* TdxDataReader.get_stock_list: the catalog scanner *)

\* bound: the *.day files of one directory
MaxFiles == 2

Digits == { "0", "1", "2", "3", "4", "5", "6", "7", "8", "9" }

\* the stems of the *.day files that may lie in vipdoc/sz/lday
SzStemPool ==
    { <<"s", "z", "0", "0", "0", "0", "0", "1">>,
      <<"s", "z", "3", "0", "0", "7", "5", "0">>,
      <<"s", "z", "9", "0", "0", "0", "0", "1">>,
      <<"s", "z", "1", "5", "9", "9", "1", "5">>,
      <<"2", "0", "0", "1">> }

\* the stems of the *.day files that may lie in vipdoc/sh/lday
ShStemPool ==
    { <<"s", "h", "6", "0", "0", "0", "0", "0">>,
      <<"s", "h", "6", "8", "8", "0", "0", "1">>,
      <<"s", "h", "9", "0", "0", "9", "0", "1">>,
      <<"s", "h", "0", "0", "0", "0", "0", "1">>,
      <<"s", "h", "6", "0", "0", "0", "0", "x">> }

\* pure_code = code[-6:]
PureCode(code) ==
    IF Len(code) > 6 THEN SubSeq(code, Len(code) - 5, Len(code)) ELSE code

\* str(pure_code).zfill(6) (no stem of the pools starts with a sign)
Zfill6(str) ==
    IF Len(str) >= 6 THEN str ELSE [i \in 1..(6 - Len(str)) |-> "0"] \o str

\* re.match(r'^(p1|p2|..)\d{k}$', str): one of the prefixes, then exactly k
\* digits, then the end of the string
MatchPrefixDigits(str, prefixes, k) ==
    \E pre \in prefixes :
        /\ Len(str) = Len(pre) + k
        /\ SubSeq(str, 1, Len(pre)) = pre
        /\ \A i \in (Len(pre) + 1)..Len(str) : str[i] \in Digits

\* the pattern without its last alternative: r'^(000|001|002)\d{3}$'
SzMatchNo300(code_str) ==
    MatchPrefixDigits(code_str,
                      { <<"0", "0", "0">>, <<"0", "0", "1">>,
                        <<"0", "0", "2">> }, 3)

\* re.match(r'^(000|001|002|300)\d{3}$', code_str)
SzMatch(code_str) ==
    MatchPrefixDigits(code_str,
                      { <<"0", "0", "0">>, <<"0", "0", "1">>,
                        <<"0", "0", "2">>, <<"3", "0", "0">> }, 3)

\* re.match(r'^(60|688)\d{4}$', code_str)
ShMatch(code_str) ==
    MatchPrefixDigits(code_str, { <<"6", "0">>, <<"6", "8", "8">> }, 4)

\* the rows appended for one directory, in glob order
SzStocks(dir) ==
    LET kept == SelectSeq(dir, LAMBDA code : SzMatch(Zfill6(PureCode(code))))
    IN  [i \in 1..Len(kept) |-> [code |-> kept[i], name |-> <<"szA">> \o kept[i]]]

ShStocks(dir) ==
    LET kept == SelectSeq(dir, LAMBDA code : ShMatch(Zfill6(PureCode(code))))
    IN  [i \in 1..Len(kept) |-> [code |-> kept[i], name |-> <<"shA">> \o kept[i]]]

\* the data directories are created and filled; a directory lists its files
\* in the order they were created
MakeSzDir ==
    /\ cat_state = "scan"
    /\ ~sz_exists
    /\ sz_exists' = TRUE
    /\ UNCHANGED <<sz_dir, sh_dir, sh_exists, stocks, cat_state>>
    /\ UNCHANGED <<aggVars, procVars, fltVars, runVars, restVars>>

MakeShDir ==
    /\ cat_state = "scan"
    /\ ~sh_exists
    /\ sh_exists' = TRUE
    /\ UNCHANGED <<sz_dir, sh_dir, sz_exists, stocks, cat_state>>
    /\ UNCHANGED <<aggVars, procVars, fltVars, runVars, restVars>>

CreateSzFile(stem) ==
    /\ cat_state = "scan"
    /\ sz_exists
    /\ Len(sz_dir) < MaxFiles
    /\ \A i \in 1..Len(sz_dir) : sz_dir[i] # stem
    /\ sz_dir' = Append(sz_dir, stem)
    /\ UNCHANGED <<sh_dir, sz_exists, sh_exists, stocks, cat_state>>
    /\ UNCHANGED <<aggVars, procVars, fltVars, runVars, restVars>>

CreateShFile(stem) ==
    /\ cat_state = "scan"
    /\ sh_exists
    /\ Len(sh_dir) < MaxFiles
    /\ \A i \in 1..Len(sh_dir) : sh_dir[i] # stem
    /\ sh_dir' = Append(sh_dir, stem)
    /\ UNCHANGED <<sz_dir, sz_exists, sh_exists, stocks, cat_state>>
    /\ UNCHANGED <<aggVars, procVars, fltVars, runVars, restVars>>

\* TdxDataReader.get_stock_list()
GetStockList ==
    /\ cat_state = "scan"
    /\ IF ~(sz_exists \/ sh_exists)
       THEN /\ cat_state' = "FileNotFoundError"
            /\ UNCHANGED stocks
       ELSE LET found == (IF sz_exists THEN SzStocks(sz_dir) ELSE <<>>)
                         \o (IF sh_exists THEN ShStocks(sh_dir) ELSE <<>>)
            IN  IF found = <<>>
                THEN /\ cat_state' = "FileNotFoundError"
                     /\ UNCHANGED stocks
                ELSE /\ cat_state' = "ok"
                     /\ stocks' = found
    /\ UNCHANGED <<sz_dir, sh_dir, sz_exists, sh_exists>>
    /\ UNCHANGED <<aggVars, procVars, fltVars, runVars, restVars>>

----------------------------------------------------------------------------
(* The date filters on a table of their own *)

\* bound: the rows of the table
MaxSeries == 3

\* a daily bar: its date column holds midnight of the day
DailyBar(day, c) == [code |-> CodeA, date |-> day * MinutesPerDay, close |-> c]

\* an intraday bar as read_min_data returns it, and as
\* process_single_stock_min_data keeps it (with the day in a date column)
MinBar(t, c) == [code |-> CodeA, datetime |-> t, close |-> c]

MinBarDate(t, c) ==
    [code |-> CodeA, datetime |-> t, close |-> c, date |-> t \div MinutesPerDay]

\* bars of 2024-01-01, 2024-01-02 and 2024-01-03 (days 0, 1 and 2)
SeriesPool ==
    { DailyBar(0, 10), DailyBar(1, 11), DailyBar(2, 12),
      MinBar(At(0, 15, 0), 10), MinBar(At(1, 9, 35), 11),
      MinBar(At(1, 15, 0), 12), MinBar(At(2, 9, 35), 13),
      MinBarDate(At(0, 15, 0), 10), MinBarDate(At(1, 9, 35), 11),
      MinBarDate(At(1, 15, 0), 12), MinBarDate(At(2, 9, 35), 13) }

\* the bounds a caller passes: none, or 2024-01-02
FilterDates == { NoDate, 1 }

\* no filter call yet
NoCall == [name |-> "", start_date |-> NoDate, end_date |-> NoDate]

\* a table is laid out in time order, all rows with the same columns
AppendBar(b) ==
    /\ flt_call.name = ""
    /\ Len(series) < MaxSeries
    /\ \A i \in 1..Len(series) : DOMAIN series[i] = DOMAIN b
    /\ Len(series) > 0 =>
          LET last == series[Len(series)]
          IN  IF "datetime" \in DOMAIN b THEN last.datetime < b.datetime
              ELSE last.date < b.date
    /\ series' = Append(series, b)
    /\ UNCHANGED <<filtered, flt_call>>
    /\ UNCHANGED <<aggVars, procVars, catVars, runVars, restVars>>

\* filter_data is handed daily tables and the tables of read_min_data
CallFilterData(start_date, end_date) ==
    /\ flt_call.name = ""
    /\ Len(series) > 0 => ~({"date", "datetime"} \subseteq DOMAIN series[1])
    /\ filtered' = FilterData(series, start_date, end_date, <<>>)
    /\ flt_call' = [name |-> "filter_data", start_date |-> start_date,
                    end_date |-> end_date]
    /\ UNCHANGED series
    /\ UNCHANGED <<aggVars, procVars, catVars, runVars, restVars>>

\* filter_data_min is handed the tables of process_single_stock_min_data
CallFilterDataMin(start_date, end_date) ==
    /\ flt_call.name = ""
    /\ Len(series) > 0 => {"date", "datetime"} \subseteq DOMAIN series[1]
    /\ filtered' = FilterDataMin(series, start_date, end_date)
    /\ flt_call' = [name |-> "filter_data_min", start_date |-> start_date,
                    end_date |-> end_date]
    /\ UNCHANGED series
    /\ UNCHANGED <<aggVars, procVars, catVars, runVars, restVars>>

----------------------------------------------------------------------------
(* main() of src/src/cli.py: the minutes and daily commands *)

\* bound: the symbols of the catalog
MaxSymbols == 2

\* no --market
NoMarket == NaN

\* the codes get_stock_list may return, in its order
RunStems ==
    << <<"s", "z", "0", "0", "0", "0", "0", "1">>,
       <<"s", "h", "6", "0", "0", "0", "0", "0">>,
       <<"s", "z", "3", "0", "0", "7", "5", "0">> >>

\* what lies under vipdoc for a symbol: no file, a file without a record, a
\* file the decoder cannot read, a file with bars
FileKinds == { "missing", "empty", "corrupt", "bars" }

\* vipdoc: the kind of the file of every symbol (a symbol beyond the catalog's
\* bound has none)
Disks ==
    { d \in [{ RunStems[i] : i \in 1..Len(RunStems) } -> FileKinds] :
        \A i \in 1..Len(RunStems) : i > MaxSymbols => d[RunStems[i]] = "missing" }

NoDisk == [stem \in { RunStems[i] : i \in 1..Len(RunStems) } |-> "missing"]

\* the day before the last day of the files, and their last day
DayBefore == 4
LastDay == 5

\* the bars of a 5-minute file: five of the day before the last, in five
\* quarters of an hour, and one of the last day
MinFile ==
    << Record5(At(DayBefore, 9, 35), 1000, 1020,  990, 1010, 10, 100),
       Record5(At(DayBefore, 9, 40), 1010, 1030, 1000, 1020, 15, 150),
       Record5(At(DayBefore, 9, 50), 1020, 1040, 1010, 1030, 12, 120),
       Record5(At(DayBefore, 10, 5), 1030, 1050, 1020, 1040,  8,  80),
       Record5(At(DayBefore, 10, 20), 1040, 1060, 1030, 1050,  6,  60),
       Record5(At(LastDay, 9, 35), 1100, 1110, 1090, 1105,  4,  40) >>

\* the bars of a daily file: one a day from day 0 to the last day,
\* time-stamped at midnight
DayFile ==
    [d \in 1..(LastDay + 1) |->
        Record5(At(d - 1, 0, 0), 1000 + 10 * d, 1030 + 10 * d, 990 + 10 * d,
                1020 + 10 * d, 25, 250)]

\* the command lines: a command, --code and --market (both or none), the
\* date bounds and the target flags; stock-list has the target flags only
CommandLines ==
    [ command    : { "minutes", "daily" },
      code       : { <<>>, <<"0", "0", "0", "0", "0", "1">> },
      start_date : { NoDate, LastDay },
      end_date   : { NoDate, DayBefore },
      csv_only   : BOOLEAN,
      db_only    : BOOLEAN ]
    \cup
    [ command    : { "stock-list" },
      code       : { <<>> },
      start_date : { NoDate },
      end_date   : { NoDate },
      csv_only   : BOOLEAN,
      db_only    : BOOLEAN ]

\* config.tdx_path when main() runs: not set, a directory that does not
\* exist, the data root
TdxPaths == { "unset", "absent", "root" }

\* before the command line is parsed
NoArgs == [command |-> "", code |-> <<>>, start_date |-> NoDate,
           end_date |-> NoDate, csv_only |-> FALSE, db_only |-> FALSE]

\* args.market of a command line
MarketOf(a) == IF a.code = <<>> THEN NoMarket ELSE 0

\* a CSV file whatever the flags
ToCsvAlways(a) == TRUE

\* to_csv = not args.db_only; to_db = not args.csv_only
ToCsv(a) == ~a.db_only
ToDb(a)  == ~a.csv_only

\* the exception TdxDataReader() raises for a path, "" when it constructs the
\* reader: `if not self.tdx_path`, `if not self.tdx_path.exists()`
ReaderInitNoChecks(p) == ""

ReaderInit(p) ==
    IF p = "unset" THEN "ValueError"
    ELSE IF p = "absent" THEN "FileNotFoundError"
    ELSE ""

\* what main() returns: 1 from an except clause, 0 from its last line
ExitCodeZero(exception) == 0

ExitCode(exception) == IF exception = "" THEN 0 ELSE 1

\* the kind of the file of a stem
KindOf(d, stem) == IF stem \in DOMAIN d THEN d[stem] ELSE "missing"

\* the exception the decoder's entry point raises on a file of that kind,
\* "" when it returns: file_path.exists(), get_df, data.index[0]
MinRaises(kind) ==
    IF kind = "missing" THEN "FileNotFoundError"
    ELSE IF kind = "corrupt" THEN "Exception"
    ELSE IF kind = "empty" THEN "IndexError"
    ELSE ""

\* read_daily_data has no debug line: an empty file is an empty table
DayRaises(kind) ==
    IF kind = "missing" THEN "FileNotFoundError"
    ELSE IF kind = "corrupt" THEN "Exception"
    ELSE ""

\* data = get_df(..); data['code'] = code; data['market'] = market
DecodedFrom(bars, market, code) ==
    [i \in 1..Len(bars) |-> bars[i] @@ [code |-> code, market |-> market]]

\* storage.save_minute_data / save_daily_data(df, freq, to_csv, to_db): the call
SaveCallTo(df, freq, to_csv, to_db) ==
    [freq |-> freq, to_csv |-> to_csv, to_db |-> to_db, df |-> df]

\* a log record of the run: its level, the symbol it is about (0: the run)
\* and what it reports
RunLog(level, sym, what) == [level |-> level, sym |-> sym, what |-> what]

\* an event of the run: the symbols it concerns and what happened
Event(syms, ev) == [syms |-> syms, ev |-> ev]

NoWork == [df5 |-> <<>>, t15 |-> <<>>, t30 |-> <<>>, t60 |-> <<>>,
           p5 |-> <<>>, p15 |-> <<>>, p30 |-> <<>>, p60 |-> <<>>,
           all_data |-> <<>>]

\* reader = TdxDataReader() raised: main() logs it and returns 1 before
\* storage = DataStorage() (cli.py:110-118)
MainInitFails(a, p) ==
    /\ run_pc = "start"
    /\ ReaderInit(p) # ""
    /\ args' = a
    /\ tdx_path' = p
    /\ run_pc' = "exit"
    /\ exit_code' = ExitCode(ReaderInit(p))
    /\ run_log' = Append(run_log, RunLog("error", 0, "init"))
    /\ UNCHANGED <<disk, catalog, cur, stage, work, events, calls, batch_ret,
                   storage>>
    /\ UNCHANGED <<aggVars, procVars, catVars, fltVars, restVars>>

\* the reader was constructed on path p, under which vipdoc is d: an absent
\* root has no file; storage = DataStorage() follows
MainInitOk(p, d) ==
    /\ run_pc = "start"
    /\ ReaderInit(p) = ""
    /\ p # "root" => d = NoDisk
    /\ tdx_path' = p
    /\ disk' = d
    /\ storage' = TRUE

\* the date filter first, the indicators on what it kept
FilteredAndProcessed(df, a) ==
    ProcessMinData(FilterData(df, a.start_date, a.end_date, <<>>))

\* processed_data = processor.process_min_data(df), then
\* processor.filter_data(processed_data, start_date=.., end_date=..)
ProcessedAndFiltered(df, a) ==
    FilterData(ProcessMinData(df), a.start_date, a.end_date, <<>>)

\* the (filtered_data, freq) pairs main() keeps of read_min_data's list
\* (cli.py:207-222): the tables that are not empty after the filter
MinutesKept(data_lst, a) ==
    LET one(k, freq) ==
            LET f == ProcessedAndFiltered(data_lst[k], a)
            IN  IF Len(f) > 0 THEN << SaveCallTo(f, freq, ToCsv(a), ToDb(a)) >>
                ELSE <<>>
    IN  one(1, 15) \o one(2, 30) \o one(3, 60)

\* the save_minute_data calls of `minutes --code .. --market ..` on a file of
\* the given kind (cli.py:188-234), in order
MinutesSingleCalls(a, kind) ==
    IF MinRaises(kind) # "" THEN <<>>
    ELSE LET data == DecodedFrom(MinFile, MarketOf(a), a.code)
             lst  == << Resample(data, 15, FALSE), Resample(data, 30, FALSE),
                        Resample(data, 60, FALSE) >>
         IN  IF Len(lst[1]) = 0 THEN <<>> ELSE MinutesKept(lst, a)

\* `minutes --code .. --market ..`: read_min_data builds the file name from the
\* code as given
MainMinutesSingle(a, p, d) ==
    /\ MainInitOk(p, d)
    /\ a.command = "minutes" /\ a.code # <<>>
    /\ args' = a
    /\ run_pc' = "exit"
    /\ LET kind == KindOf(d, MarketFolder(MarketOf(a)) \o a.code)
       IN  /\ exit_code' = ExitCode(MinRaises(kind))
           /\ IF MinRaises(kind) # ""
              THEN /\ run_log' = Append(run_log, RunLog("error", 0, MinRaises(kind)))
                   /\ UNCHANGED calls
              ELSE /\ calls' = calls \o MinutesSingleCalls(a, kind)
                   /\ run_log' =
                          IF MinutesSingleCalls(a, kind) = <<>>
                          THEN Append(run_log, RunLog("warning", 0, "no data"))
                          ELSE run_log
    /\ UNCHANGED <<catalog, cur, stage, work, events, batch_ret>>
    /\ UNCHANGED <<aggVars, procVars, catVars, fltVars, restVars>>

\* a table with its DatetimeIndex as a column of that name
IndexAs(df, name) ==
    [i \in 1..Len(df) |->
        [f \in ((DOMAIN df[i]) \ {"datetime"}) \cup {name} |->
            IF f = name THEN df[i].datetime ELSE df[i][f]]]

\* the save_daily_data calls of `daily --code .. --market ..` (cli.py:143-179)
DailySingleCalls(a, kind) ==
    IF DayRaises(kind) # "" \/ kind = "empty" THEN <<>>
    ELSE LET data == DecodedFrom(DayFile, MarketOf(a), Last6(a.code))
             f    == FilterData(ProcessDailyData(data), a.start_date,
                                a.end_date, << a.code >>)
         IN  IF Len(f) = 0 THEN <<>>
             ELSE << SaveCallTo(f, 1, ToCsv(a), ToDb(a)) >>

MainDailySingle(a, p, d) ==
    /\ MainInitOk(p, d)
    /\ a.command = "daily" /\ a.code # <<>>
    /\ args' = a
    /\ run_pc' = "exit"
    /\ LET kind == KindOf(d, MarketFolder(MarketOf(a)) \o Last6(a.code))
       IN  /\ exit_code' = ExitCode(DayRaises(kind))
           /\ IF DayRaises(kind) # ""
              THEN /\ run_log' = Append(run_log, RunLog("error", 0, DayRaises(kind)))
                   /\ UNCHANGED calls
              ELSE /\ calls' = calls \o DailySingleCalls(a, kind)
                   /\ run_log' =
                          IF DailySingleCalls(a, kind) = <<>>
                          THEN Append(run_log, RunLog("warning", 0, "no data"))
                          ELSE run_log
    /\ UNCHANGED <<catalog, cur, stage, work, events, batch_ret>>
    /\ UNCHANGED <<aggVars, procVars, catVars, fltVars, restVars>>

\* the stage a symbol is in after a stage ended, well or with an exception:
\* an exception leaves the try block of the symbol for good
StageAfterRetry(st, ok) ==
    IF ~ok THEN st
    ELSE IF st = "DISCOVERED" THEN "DECODED"
    ELSE IF st = "DECODED" THEN "AGGREGATED"
    ELSE IF st = "AGGREGATED" THEN "INDICATORS_ATTACHED"
    ELSE "HANDED_OFF"

StageAfter(st, ok) ==
    IF ~ok THEN "FAILED"
    ELSE IF st = "DISCOVERED" THEN "DECODED"
    ELSE IF st = "DECODED" THEN "AGGREGATED"
    ELSE IF st = "AGGREGATED" THEN "INDICATORS_ATTACHED"
    ELSE "HANDED_OFF"

\* where the loop goes after the except clauses of a symbol: `continue`
OnSymbolErrorAbort == "exit"

OnSymbolError == "loop"

\* market = 1 if code.startswith('sh') else 0
MarketOfCode(code) ==
    IF Len(code) >= 2 /\ SubSeq(code, 1, 2) = <<"s", "h">> THEN 1 ELSE 0

\* the file a full-catalog run reads for a catalog code
StemOfCode(code) == MarketFolder(MarketOfCode(code)) \o Last6(code)

\* `minutes` / `daily` without --code: the driver asks for the catalog, which
\* has n symbols; get_stock_list raises when it has none
MainAll(a, p, d, n) ==
    /\ MainInitOk(p, d)
    /\ a.command \in { "minutes", "daily" } /\ a.code = <<>>
    /\ p # "root" => n = 0
    /\ args' = a
    /\ IF n = 0
       THEN /\ run_pc' = "exit"
            /\ exit_code' = ExitCode("FileNotFoundError")
            /\ batch_ret' = IF a.command = "minutes" THEN "False" ELSE "raised"
            /\ run_log' = Append(run_log, RunLog("error", 0, "FileNotFoundError"))
            /\ UNCHANGED catalog
       ELSE /\ run_pc' = "loop"
            /\ catalog' = SubSeq(RunStems, 1, n)
            /\ UNCHANGED <<exit_code, batch_ret, run_log>>
    /\ UNCHANGED <<cur, stage, work, events, calls>>
    /\ UNCHANGED <<aggVars, procVars, catVars, fltVars, restVars>>

\* the table get_stock_list returns for a catalog
StockInfo(codes) == [i \in 1..Len(codes) |-> [code |-> codes[i]]]

\* `stock-list`: get_stock_list, then save_stock_info with the flags
\* (cli.py:121-138); freq 0 stands for the stock_info table
MainStockList(a, p, d, n) ==
    /\ MainInitOk(p, d)
    /\ a.command = "stock-list"
    /\ p # "root" => n = 0
    /\ args' = a
    /\ run_pc' = "exit"
    /\ IF n = 0
       THEN /\ exit_code' = ExitCode("FileNotFoundError")
            /\ run_log' = Append(run_log, RunLog("error", 0, "FileNotFoundError"))
            /\ UNCHANGED <<catalog, calls>>
       ELSE /\ exit_code' = ExitCode("")
            /\ catalog' = SubSeq(RunStems, 1, n)
            /\ calls' = Append(calls, SaveCallTo(StockInfo(SubSeq(RunStems, 1, n)),
                                                 0, ToCsv(a), ToDb(a)))
            /\ UNCHANGED run_log
    /\ UNCHANGED <<cur, stage, work, events, batch_ret>>
    /\ UNCHANGED <<aggVars, procVars, catVars, fltVars, restVars>>

\* the symbol's pass through the loop body is over
SymbolDone ==
    \/ stage \in { "", "HANDED_OFF", "FAILED" }
    \/ args.command = "daily" /\ stage = "DECODED"

\* for _, stock in iterator: the next symbol of the catalog
NextSymbol ==
    /\ run_pc = "loop"
    /\ SymbolDone
    /\ cur < Len(catalog)
    /\ cur' = cur + 1
    /\ stage' = "DISCOVERED"
    /\ events' = Append(events, Event({cur + 1}, "discover"))
    /\ work' = [NoWork EXCEPT !.all_data = work.all_data]
    /\ UNCHANGED <<args, disk, catalog, run_pc, calls, run_log, batch_ret, exit_code>>
    /\ UNCHANGED <<aggVars, procVars, catVars, fltVars, tdx_path, storage, restVars>>

\* the exception of a stage is caught: process_single_stock_min_data logs it
\* at error level and returns False
StageFails(what) ==
    /\ stage' = StageAfter(stage, FALSE)
    /\ run_pc' = OnSymbolError
    /\ events' = Append(events, Event({cur}, "fail"))
    /\ run_log' = Append(run_log, RunLog("error", cur, what))
    /\ UNCHANGED <<work, calls>>

\* df_5min = self.read_5min_data(market, code); df_5min['date'] = ..
Decode5 ==
    /\ run_pc = "loop"
    /\ args.command = "minutes"
    /\ stage = "DISCOVERED"
    /\ LET code == catalog[cur]
           kind == KindOf(disk, StemOfCode(code))
       IN  IF MinRaises(kind) # "" THEN StageFails(MinRaises(kind))
           ELSE /\ stage' = StageAfter(stage, TRUE)
                /\ work' = [work EXCEPT !.df5 =
                              WithDate(DecodedFrom(MinFile, MarketOfCode(code),
                                                   Last6(code)))]
                /\ events' = Append(events, Event({cur}, "decode"))
                /\ UNCHANGED <<run_pc, run_log, calls>>
    /\ UNCHANGED <<args, disk, catalog, cur, batch_ret, exit_code>>
    /\ UNCHANGED <<aggVars, procVars, catVars, fltVars, tdx_path, storage, restVars>>

\* the three resample(..).agg(..).dropna() of the symbol; pandas may raise
Aggregate(ok) ==
    /\ run_pc = "loop"
    /\ args.command = "minutes"
    /\ stage = "DECODED"
    /\ IF ~ok THEN StageFails("Exception")
       ELSE /\ stage' = StageAfter(stage, TRUE)
            /\ work' = [work EXCEPT !.t15 = Resample(work.df5, 15, TRUE),
                                    !.t30 = Resample(work.df5, 30, TRUE),
                                    !.t60 = Resample(work.df5, 60, TRUE)]
            /\ events' = Append(events, Event({cur}, "aggregate"))
            /\ UNCHANGED <<run_pc, run_log, calls>>
    /\ UNCHANGED <<args, disk, catalog, cur, batch_ret, exit_code>>
    /\ UNCHANGED <<aggVars, procVars, catVars, fltVars, tdx_path, storage, restVars>>

\* the four processor.process_min_data calls of the symbol
AttachIndicators(ok) ==
    /\ run_pc = "loop"
    /\ args.command = "minutes"
    /\ stage = "AGGREGATED"
    /\ IF ~ok THEN StageFails("Exception")
       ELSE /\ stage' = StageAfter(stage, TRUE)
            /\ work' = [work EXCEPT !.p5  = ProcessMinData(work.df5),
                                    !.p15 = ProcessMinData(work.t15),
                                    !.p30 = ProcessMinData(work.t30),
                                    !.p60 = ProcessMinData(work.t60)]
            /\ events' = Append(events, Event({cur}, "indicators"))
            /\ UNCHANGED <<run_pc, run_log, calls>>
    /\ UNCHANGED <<args, disk, catalog, cur, batch_ret, exit_code>>
    /\ UNCHANGED <<aggVars, procVars, catVars, fltVars, tdx_path, storage, restVars>>

\* what save_to_database logs for a table: nothing to save, saved, or the
\* error it caught
SaveLog(df, sym, db_ok) ==
    IF Len(df) = 0 THEN RunLog("warning", sym, "nothing to save")
    ELSE IF db_ok THEN RunLog("info", sym, "saved")
    ELSE RunLog("error", sym, "save")

\* the filter by start_date and the four storage.save_minute_data calls
\* (reader.py:450-490); the database takes the rows or not
HandOff(db_ok) ==
    /\ run_pc = "loop"
    /\ args.command = "minutes"
    /\ stage = "INDICATORS_ATTACHED"
    /\ LET keep(df) == IF args.start_date # NoDate
                       THEN FilterDataMin(df, args.start_date, NoDate)
                       ELSE df
       IN  /\ calls' = calls \o << SaveCall(keep(work.p5), 5),
                                   SaveCall(keep(work.p15), 15),
                                   SaveCall(keep(work.p30), 30),
                                   SaveCall(keep(work.p60), 60) >>
           /\ run_log' = run_log \o << SaveLog(keep(work.p5), cur, db_ok),
                                       SaveLog(keep(work.p15), cur, db_ok),
                                       SaveLog(keep(work.p30), cur, db_ok),
                                       SaveLog(keep(work.p60), cur, db_ok),
                                       RunLog("info", cur, "stored") >>
    /\ stage' = StageAfter(stage, TRUE)
    /\ events' = Append(events, Event({cur}, "save"))
    /\ UNCHANGED <<args, disk, catalog, run_pc, cur, work, batch_ret, exit_code>>
    /\ UNCHANGED <<aggVars, procVars, catVars, fltVars, tdx_path, storage, restVars>>

\* data = self.read_daily_data(market, code); all_data.append(data): a missing
\* file is passed over in silence, another exception is logged
DecodeDaily ==
    /\ run_pc = "loop"
    /\ args.command = "daily"
    /\ stage = "DISCOVERED"
    /\ LET code == catalog[cur]
           kind == KindOf(disk, StemOfCode(code))
       IN  IF DayRaises(kind) # ""
           THEN /\ stage' = StageAfter(stage, FALSE)
                /\ run_pc' = OnSymbolError
                /\ events' = Append(events, Event({cur}, "fail"))
                /\ run_log' = IF kind = "missing" THEN run_log
                              ELSE Append(run_log, RunLog("error", cur, DayRaises(kind)))
                /\ UNCHANGED work
           ELSE /\ stage' = StageAfter(stage, TRUE)
                /\ work' = [work EXCEPT !.all_data = work.all_data \o
                              IndexAs(DecodedFrom(IF kind = "empty" THEN <<>> ELSE DayFile,
                                                  MarketOfCode(code), Last6(code)),
                                      "date")]
                /\ events' = Append(events, Event({cur}, "decode"))
                /\ UNCHANGED <<run_pc, run_log>>
    /\ UNCHANGED <<args, disk, catalog, cur, calls, batch_ret, exit_code>>
    /\ UNCHANGED <<aggVars, procVars, catVars, fltVars, tdx_path, storage, restVars>>

\* the catalog is exhausted: process_and_store_min_data returns True and
\* main() 0; read_all_daily_data goes on to concatenate
EndLoop ==
    /\ run_pc = "loop"
    /\ SymbolDone
    /\ cur = Len(catalog)
    /\ IF args.command = "minutes"
       THEN /\ run_pc' = "exit"
            /\ batch_ret' = "True"
            /\ exit_code' = ExitCode("")
       ELSE /\ run_pc' = "batch"
            /\ batch_ret' = "returned"
            /\ UNCHANGED exit_code
    /\ UNCHANGED <<args, disk, catalog, cur, stage, work, events, calls, run_log>>
    /\ UNCHANGED <<aggVars, procVars, catVars, fltVars, tdx_path, storage, restVars>>

\* the symbols of the catalog that have a row in a table
SymbolsIn(df) ==
    { i \in 1..Len(catalog) :
        \E k \in 1..Len(df) : df[k].code = Last6(catalog[i]) }

\* main() on the table read_all_daily_data returned (cli.py:150-179):
\* process_daily_data, filter_data and one save_daily_data for all symbols
DailyBatch ==
    /\ run_pc = "batch"
    /\ run_pc' = "exit"
    /\ exit_code' = ExitCode("")
    /\ \E data \in { work.all_data } :
       \E f \in { FilterData(ProcessDailyData(data), args.start_date,
                              args.end_date, <<>>) } :
           IF Len(data) = 0 \/ Len(f) = 0
           THEN /\ run_log' = Append(run_log, RunLog("warning", 0, "no data"))
                /\ UNCHANGED <<calls, events>>
           ELSE /\ calls' = Append(calls, SaveCallTo(f, 1, ToCsv(args), ToDb(args)))
                /\ events' = events \o << Event(SymbolsIn(data), "indicators"),
                                          Event(SymbolsIn(f), "save") >>
                /\ UNCHANGED run_log
    /\ UNCHANGED <<args, disk, catalog, cur, stage, work, batch_ret>>
    /\ UNCHANGED <<aggVars, procVars, catVars, fltVars, tdx_path, storage, restVars>>

----------------------------------------------------------------------------
(* The DataProcessor functions and the table of their caller *)

\* bound: the rows of the caller's table
MaxFrame == 3

\* a bar of a table read_min_data or read_daily_data made, and of a table
\* process_single_stock_min_data made (with the day in a date column)
FrameRow(t, o, h, l, c, v, am) ==
    Row(CodeA, o, h, l, c, v, am) @@ [datetime |-> t]

FrameRowDate(t, o, h, l, c, v, am) ==
    FrameRow(t, o, h, l, c, v, am) @@ [date |-> t \div MinutesPerDay]

\* bars of 2024-01-01 and 2024-01-02, one of them without its values
FramePool ==
    { FrameRow(At(0, 15, 0), 10, 12, 9, 11, 100, 1000),
      FrameRow(At(1, 9, 35), NaN, NaN, NaN, NaN, NaN, NaN),
      FrameRow(At(1, 15, 0), 20, 22, 19, 21, 200, 4000),
      FrameRowDate(At(0, 15, 0), 10, 12, 9, 11, 100, 1000),
      FrameRowDate(At(1, 9, 35), NaN, NaN, NaN, NaN, NaN, NaN),
      FrameRowDate(At(1, 15, 0), 20, 22, 19, 21, 200, 4000) }

FrameFunctions ==
    { "process_daily_data", "process_min_data", "filter_data", "filter_data_min" }

\* what the function returns for a table
Returned(name, df, start_date, end_date) ==
    IF name = "process_daily_data" THEN ProcessDailyData(df)
    ELSE IF name = "process_min_data" THEN ProcessMinData(df)
    ELSE IF name = "filter_data" THEN FilterData(df, start_date, end_date, <<>>)
    ELSE FilterDataMin(df, start_date, end_date)

\* the contents, when the function returns, of the table its local name was
\* first bound to: the process functions assign columns to processed_df, the
\* filters only rebind filtered_df to a selection of it
WorkedOn(name, df, start_date, end_date) ==
    IF name \in { "process_daily_data", "process_min_data" }
    THEN Returned(name, df, start_date, end_date)
    ELSE df

\* the local name is bound to the caller's table itself
CallerTableNoCopy(df, worked) == worked

\* processed_df = df.copy(), filtered_df = df.copy(): the table worked on is
\* not the caller's
CallerTable(df, worked) == df

\* the caller lays a table out, all rows with the same columns
AppendFrameRow(r) ==
    /\ frame_call.name = ""
    /\ Len(frame) < MaxFrame
    /\ \A i \in 1..Len(frame) : DOMAIN frame[i] = DOMAIN r
    /\ frame' = Append(frame, r)
    /\ UNCHANGED <<frame_was, frame_out, frame_call>>
    /\ UNCHANGED <<aggVars, procVars, catVars, fltVars, runVars, dbVars>>

\* a call of one of the four functions: filter_data is handed tables without
\* a date column, filter_data_min tables with one
CallOnFrame(name, start_date, end_date) ==
    /\ frame_call.name = ""
    /\ name \in { "process_daily_data", "process_min_data" } =>
          start_date = NoDate /\ end_date = NoDate
    /\ (name = "filter_data" /\ Len(frame) > 0) => "date" \notin DOMAIN frame[1]
    /\ (name = "filter_data_min" /\ Len(frame) > 0) => "date" \in DOMAIN frame[1]
    /\ frame_call' = [name |-> name, start_date |-> start_date,
                      end_date |-> end_date]
    /\ frame_was' = frame
    /\ frame_out' = Returned(name, frame, start_date, end_date)
    /\ frame' = CallerTable(frame, WorkedOn(name, frame, start_date, end_date))
    /\ UNCHANGED <<aggVars, procVars, catVars, fltVars, runVars, dbVars>>

----------------------------------------------------------------------------
(* DataStorage.save_to_database (src/src/storage.py) *)

\* bounds: the rows of the table and the batch size
MaxDbRows == 7
MaxBatchSize == 4

\* the count rounded down
NumBatchesFloor(total_rows, batch_size) == total_rows \div batch_size

\* num_batches = (total_rows + batch_size - 1) // batch_size
NumBatches(total_rows, batch_size) ==
    (total_rows + batch_size - 1) \div batch_size

\* df_to_save.iloc[start_idx:end_idx] with start_idx = i * batch_size and
\* end_idx = min((i + 1) * batch_size, total_rows); iloc counts from 0
BatchOf(df, i, batch_size) ==
    LET start_idx == i * batch_size
        end_idx   == IF (i + 1) * batch_size < Len(df)
                     THEN (i + 1) * batch_size ELSE Len(df)
    IN  SubSeq(df, start_idx + 1, end_idx)

\* save_to_database(df, table_name, batch_size) up to its loop: an empty table
\* returns False, a table of at most batch_size rows is written by one to_sql
\* (which may raise), a batch size of 0 raises in the count of batches
SaveToDatabase(total_rows, batch_size, ok) ==
    /\ db_pc = "idle"
    /\ db_df' = [k \in 1..total_rows |-> k]
    /\ db_batch_size' = batch_size
    /\ IF total_rows = 0
       THEN /\ db_pc' = "done" /\ db_ret' = "False"
            /\ UNCHANGED <<db_i, db_written>>
       ELSE IF total_rows <= batch_size
       THEN /\ db_pc' = "done"
            /\ db_ret' = IF ok THEN "True" ELSE "False"
            /\ db_written' = IF ok THEN << [k \in 1..total_rows |-> k] >>
                              ELSE db_written
            /\ UNCHANGED db_i
       ELSE IF batch_size = 0
       THEN /\ db_pc' = "done" /\ db_ret' = "False"
            /\ UNCHANGED <<db_i, db_written>>
       ELSE /\ db_pc' = "loop"
            /\ UNCHANGED <<db_i, db_written, db_ret>>
    /\ UNCHANGED <<aggVars, procVars, catVars, fltVars, runVars, frameVars>>

\* for i in range(num_batches): batch_df.to_sql(..), which may raise
WriteBatch(ok) ==
    /\ db_pc = "loop"
    /\ db_i < NumBatches(Len(db_df), db_batch_size)
    /\ IF ok
       THEN /\ db_written' = Append(db_written, BatchOf(db_df, db_i, db_batch_size))
            /\ db_i' = db_i + 1
            /\ UNCHANGED <<db_pc, db_ret>>
       ELSE /\ db_pc' = "done" /\ db_ret' = "False"
            /\ UNCHANGED <<db_i, db_written>>
    /\ UNCHANGED <<db_df, db_batch_size>>
    /\ UNCHANGED <<aggVars, procVars, catVars, fltVars, runVars, frameVars>>

\* the loop is over: return True
EndBatches ==
    /\ db_pc = "loop"
    /\ db_i >= NumBatches(Len(db_df), db_batch_size)
    /\ db_pc' = "done"
    /\ db_ret' = "True"
    /\ UNCHANGED <<db_df, db_batch_size, db_i, db_written>>
    /\ UNCHANGED <<aggVars, procVars, catVars, fltVars, runVars, frameVars>>

----------------------------------------------------------------------------
(* Specifications *)

Init ==
    /\ lc5_exists = FALSE
    /\ lc5 = <<>>
    /\ pc = "decode"
    /\ entry = ""
    /\ raised = ""
    /\ data_list = <<>>
    /\ ret = FALSE
    /\ saved = <<>>
    /\ log = <<>>
    /\ batch = <<>>
    /\ processed = <<>>
    /\ proc_done = ""
    /\ sz_dir = <<>>
    /\ sh_dir = <<>>
    /\ sz_exists = FALSE
    /\ sh_exists = FALSE
    /\ stocks = <<>>
    /\ cat_state = "scan"
    /\ series = <<>>
    /\ filtered = <<>>
    /\ flt_call = NoCall
    /\ args = NoArgs
    /\ disk = NoDisk
    /\ catalog = <<>>
    /\ run_pc = "start"
    /\ cur = 0
    /\ stage = ""
    /\ work = NoWork
    /\ events = <<>>
    /\ calls = <<>>
    /\ run_log = <<>>
    /\ batch_ret = ""
    /\ exit_code = NaN
    /\ tdx_path = ""
    /\ storage = FALSE
    /\ frame = <<>>
    /\ frame_was = <<>>
    /\ frame_out = <<>>
    /\ frame_call = NoCall
    /\ db_df = <<>>
    /\ db_batch_size = 0
    /\ db_pc = "idle"
    /\ db_i = 0
    /\ db_written = <<>>
    /\ db_ret = ""

\* the 5-minute file, read_min_data and process_single_stock_min_data
NextAgg ==
    \/ CreateFile
    \/ \E b \in BarPool : WriteRecord(b)
    \/ \E q \in Requests : ReadMinData(q[1], q[2])
    \/ \E q \in Requests, d \in StartDates :
           ProcessSingleStockMinData(q[1], q[2], d)

SpecAgg == Init /\ [][NextAgg]_vars

\* the processor
NextProc ==
    \/ \E r \in RowPool : AppendRow(r)
    \/ RepeatRows
    \/ CallProcessDailyData
    \/ CallProcessMinData

SpecProc == Init /\ [][NextProc]_vars

\* the catalog scanner
NextCat ==
    \/ MakeSzDir
    \/ MakeShDir
    \/ \E stem \in SzStemPool : CreateSzFile(stem)
    \/ \E stem \in ShStemPool : CreateShFile(stem)
    \/ GetStockList

SpecCat == Init /\ [][NextCat]_vars

\* the date filters
NextFilter ==
    \/ \E b \in SeriesPool : AppendBar(b)
    \/ \E d \in FilterDates, e \in FilterDates : CallFilterData(d, e)
    \/ \E d \in FilterDates, e \in FilterDates : CallFilterDataMin(d, e)

SpecFilter == Init /\ [][NextFilter]_vars

\* a step of a run under way
RunStep ==
    \/ NextSymbol
    \/ Decode5
    \/ \E ok \in BOOLEAN : Aggregate(ok)
    \/ \E ok \in BOOLEAN : AttachIndicators(ok)
    \/ \E db_ok \in BOOLEAN : HandOff(db_ok)
    \/ DecodeDaily
    \/ EndLoop
    \/ DailyBatch

\* main(): the minutes and daily commands
NextMain ==
    \/ /\ run_pc = "start"
       /\ \E a \in CommandLines, p \in TdxPaths : MainInitFails(a, p)
    \/ /\ run_pc = "start"
       /\ \E a \in CommandLines, p \in TdxPaths, d \in Disks :
              MainMinutesSingle(a, p, d)
    \/ /\ run_pc = "start"
       /\ \E a \in CommandLines, p \in TdxPaths, d \in Disks :
              MainDailySingle(a, p, d)
    \/ /\ run_pc = "start"
       /\ \E a \in CommandLines, p \in TdxPaths, d \in Disks,
              n \in 0..MaxSymbols : MainAll(a, p, d, n)
    \/ /\ run_pc = "start"
       /\ \E a \in CommandLines, p \in TdxPaths, d \in Disks,
              n \in 0..MaxSymbols : MainStockList(a, p, d, n)
    \/ RunStep

SpecMain == Init /\ [][NextMain]_vars

\* a run under way goes on: its next step is not put off for ever
FairMain == SpecMain /\ WF_vars(RunStep)

\* a caller's table and the DataProcessor functions
NextFrame ==
    \/ \E r \in FramePool : AppendFrameRow(r)
    \/ \E name \in FrameFunctions, d \in FilterDates, e \in FilterDates :
           CallOnFrame(name, d, e)

SpecFrame == Init /\ [][NextFrame]_vars

\* save_to_database
NextDb ==
    \/ \E n \in 0..MaxDbRows, b \in 0..MaxBatchSize, ok \in BOOLEAN :
           SaveToDatabase(n, b, ok)
    \/ \E ok \in BOOLEAN : WriteBatch(ok)
    \/ EndBatches

SpecDb == Init /\ [][NextDb]_vars

----------------------------------------------------------------------------
(* The aggregation: what the entry points produced from the file *)

Widths == { 15, 30, 60 }

\* the table of width W the entry point that ran handed out: an entry of
\* read_min_data's list, or the table passed to save_minute_data
Produced(W) ==
    LET k == IF W = 15 THEN 1 ELSE IF W = 30 THEN 2 ELSE 3
    IN  IF entry = "read_min_data" /\ raised = "" THEN data_list[k]
        ELSE IF entry = "process_single" /\ ret = TRUE THEN saved[k + 1].df
        ELSE <<>>

\* the decoded 5-minute bars in time order (bars of one time stamp in file
\* order)
Bars5 == SortByIndex(lc5)

\* the start of the W-minute wall-clock window that holds time stamp t
WindowStart(t, W) == t - ((t % MinutesPerDay) % W)

\* the bucket of an output row: the bars whose window starts at its time stamp
Bucket(r, W) ==
    SelectSeq(Bars5, LAMBDA b : WindowStart(b.datetime, W) = r.datetime)

RECURSIVE Total(_)
Total(vals) ==
    IF vals = <<>> THEN 0
    ELSE (IF Head(vals) = NaN THEN 0 ELSE Head(vals)) + Total(Tail(vals))

\* the high, low, volume, amount, code and market of the rule of C1
RestOfRule(r, m) ==
    /\ \E i \in 1..Len(m) : m[i].high # NaN /\ r.high = m[i].high
    /\ \A i \in 1..Len(m) : m[i].high <= r.high
    /\ \E i \in 1..Len(m) : m[i].low # NaN /\ r.low = m[i].low
    /\ \A i \in 1..Len(m) : m[i].low # NaN => r.low <= m[i].low
    /\ r.volume = Total(Column(m, "volume"))
    /\ r.amount = Total(Column(m, "amount"))
    /\ r.code = Last6(Lc5Stem)
    /\ r.market = 0

\* C1 as stated: every output bar has open = open of the earliest bar of its
\* bucket and close = close of the latest bar of its bucket, high = max of
\* the highs, low = min of the lows, volume and amount = the sums, code and
\* market those of the bars.
C1_AsStated ==
    \A W \in Widths : \A k \in 1..Len(Produced(W)) :
        LET r == Produced(W)[k]
            m == Bucket(r, W)
        IN  /\ Len(m) > 0
            /\ r.open = m[1].open
            /\ r.close = m[Len(m)].close
            /\ RestOfRule(r, m)

\* C1, amended: every output bar has open = open of the earliest bar of its
\* bucket that has an open, close = close of the latest bar of its bucket
\* that has a close, high / low = the max / min of the highs / lows present,
\* volume / amount = the sums of those present, code and market those of the
\* bars.
C1_Aggregation ==
    \A W \in Widths : \A k \in 1..Len(Produced(W)) :
        LET r == Produced(W)[k]
            m == Bucket(r, W)
        IN  /\ Len(m) > 0
            /\ \E i \in 1..Len(m) :
                  /\ m[i].open # NaN
                  /\ r.open = m[i].open
                  /\ \A j \in 1..(i - 1) : m[j].open = NaN
            /\ \E i \in 1..Len(m) :
                  /\ m[i].close # NaN
                  /\ r.close = m[i].close
                  /\ \A j \in (i + 1)..Len(m) : m[j].close = NaN
            /\ RestOfRule(r, m)

\* a 15-minute bar was produced from a bucket of several bars, the earliest
\* of them without an open
C1_Witness ==
    \E k \in 1..Len(Produced(15)) :
        LET m == Bucket(Produced(15)[k], 15)
        IN  Len(m) >= 2 /\ m[1].open = NaN /\ m[Len(m)].close # m[1].close

\* the file of the 09:35 - 09:50 example
ExampleFile ==
    << Record5(At(0, 9, 35), 1000, 1020,  990, 1010, 10, 100),
       Record5(At(0, 9, 40), 1010, 1030, 1000, 1020, 15, 150),
       Record5(At(0, 9, 45), 1020, 1020, 1000, 1005,  8,  80),
       Record5(At(0, 9, 50), 1005, 1015, 1000, 1010,  9,  90) >>

\* C2 as stated: the four bars of 09:35, 09:40, 09:45 and 09:50 aggregated to
\* 15 minutes give a bucket starting 09:30 over the first three bars with
\* O = 10.0, H = 10.3, L = 9.9, C = 10.05, V = 330 and the 09:50 bar in a
\* separate, later bucket.
C2_AsStated ==
    (entry = "read_min_data" /\ raised = "" /\ lc5 = ExampleFile) =>
        /\ \E k \in 1..Len(data_list[1]) :
              /\ data_list[1][k].datetime = At(0, 9, 30)
              /\ data_list[1][k].open = 1000
              /\ data_list[1][k].high = 1030
              /\ data_list[1][k].low = 990
              /\ data_list[1][k].close = 1005
              /\ data_list[1][k].volume = 330
        /\ \E k \in 1..Len(data_list[1]) :
              /\ data_list[1][k].datetime > At(0, 9, 30)
              /\ data_list[1][k].volume = 90

\* C3: for W in {15, 30, 60} every output bar's time stamp is a whole multiple
\* of W minutes from midnight, whatever the first time stamp of the input, and
\* every input bar lies in exactly one bin of the resampler, the one whose
\* W-minute window holds the bar's time stamp.
C3_Alignment ==
    \A W \in Widths :
        /\ \A k \in 1..Len(Produced(W)) :
              /\ (Produced(W)[k].datetime % MinutesPerDay) % W = 0
              /\ Len(Bucket(Produced(W)[k], W)) > 0
        /\ (pc = "done" /\ Len(lc5) > 0) =>
              LET labels == BinLabels(Bars5, W)
              IN  \A i \in 1..Len(Bars5) :
                      LET t     == Bars5[i].datetime
                          holds == { k \in 1..Len(labels) :
                                       \E j \in 1..Len(BinMembers(Bars5, labels[k], W)) :
                                           BinMembers(Bars5, labels[k], W)[j] = Bars5[i] }
                      IN  /\ Cardinality(holds) = 1
                          /\ \A k \in holds :
                                /\ labels[k] = WindowStart(t, W)
                                /\ labels[k] <= t
                                /\ t < labels[k] + W

\* output bars were produced from a file whose first time stamp is not on a
\* 60-minute boundary and that holds a bar on a 15-minute boundary
C3_Witness ==
    /\ Len(Produced(60)) > 0
    /\ Len(Produced(15)) >= 2
    /\ lc5[1].datetime % 60 # 0
    /\ \E i \in 1..Len(lc5) : lc5[i].datetime % 15 = 0

\* the windows of width W that hold an input bar
NonEmptyWindows(W) ==
    { WindowStart(lc5[i].datetime, W) : i \in 1..Len(lc5) }

\* C4: no row is emitted for a window without an input bar: the output has at
\* most as many rows as there are non-empty windows, and the window of every
\* output row holds an input bar.
C4_NoEmptyBucket ==
    \A W \in Widths :
        /\ Len(Produced(W)) <= Cardinality(NonEmptyWindows(W))
        /\ \A k \in 1..Len(Produced(W)) :
              \E i \in 1..Len(lc5) :
                  /\ Produced(W)[k].datetime <= lc5[i].datetime
                  /\ lc5[i].datetime < Produced(W)[k].datetime + W

\* bars of two days were aggregated: the night between them is a run of
\* empty windows, and both days have an output bar
C4_Witness ==
    /\ entry = "read_min_data"
    /\ Len(data_list) = 3
    /\ Len(data_list[1]) = 2
    /\ data_list[1][2].datetime - data_list[1][1].datetime > 15

\* the request found the file
Lc5Opened ==
    /\ lc5_exists
    /\ raised # "FileNotFoundError"
    /\ \A i \in 1..Len(log) : log[i] # Error("FileNotFoundError")

\* C5 as stated: when the file exists and decodes to no record, read_min_data
\* returns three empty tables and raises nothing, and read_5min_data under
\* process_single_stock_min_data raises nothing either.
C5_AsStated ==
    (pc = "done" /\ Lc5Opened /\ Len(lc5) = 0) =>
        /\ raised = ""
        /\ \A i \in 1..Len(log) : log[i].level # "error"
        /\ entry = "read_min_data" =>
              data_list = << <<>>, <<>>, <<>> >>

----------------------------------------------------------------------------
(* The processor: what it attached to the table *)

Codes == { CodeA, CodeB }

\* the rows of one symbol, in table order
SeriesOf(df, c) == SelectSeq(df, LAMBDA r : r.code = c)

\* the sum of x[lo..hi], value by value: each value times the number of
\* places it holds
RECURSIVE WeightedSum(_, _, _, _)
WeightedSum(values, x, lo, hi) ==
    IF values = {} THEN 0
    ELSE LET v == CHOOSE u \in values : TRUE
         IN  v * Cardinality({ j \in lo..hi : x[j] = v })
             + WeightedSum(values \ {v}, x, lo, hi)

WindowTotal(x, lo, hi) ==
    WeightedSum({ x[j] : j \in lo..hi }, x, lo, hi)

\* C6: for every period p of the list and every position of one symbol's
\* series, ma[p] is the arithmetic mean of the p closes that end at the position
\* when there are p of them and all are present, and is null at the first
\* p - 1 positions.
C6_MovingAverage ==
    proc_done # "" =>
        \A c \in Codes :
            LET x == Table(Column(SeriesOf(processed, c), "close"))
                a == Table(Column(SeriesOf(processed, c), "ma"))
            IN  \A p \in { 5, 10, 13, 21, 34, 55, 60, 89, 144, 233, 250 } :
                    \A k \in 1..Len(x) :
                        IF k < p THEN a[k][p].n = 0
                        ELSE (\A j \in (k - p + 1)..k : x[j] # NaN) =>
                                /\ a[k][p].n = p
                                /\ a[k][p].sum = WindowTotal(x, k - p + 1, k)

\* a long series of one symbol was processed: ma5 is null at the fourth row
\* and a mean at the fifth, ma250 is a mean of 250 closes at row 250
C6_Witness ==
    /\ proc_done # ""
    /\ Len(processed) >= 250
    /\ \A i \in 1..Len(processed) : processed[i].code = CodeA
    /\ processed[4].ma[5].n = 0
    /\ processed[5].ma[5] = [sum |-> 5 * processed[5].close, n |-> 5]
    /\ processed[250].ma[250].n = 250
    /\ processed[249].ma[250].n = 0

\* C7 as stated: the indicators attached to a symbol's bars are those the
\* processor attaches to the batch of that symbol's bars alone.
C7_AsStated ==
    proc_done # "" =>
        \A c \in Codes :
            LET got   == Column(SeriesOf(processed, c), "ma")
                alone == Column(ProcessMinData(SeriesOf(batch, c)), "ma")
            IN  \A k \in 1..Len(got) : got[k] = alone[k]

\* the last value of field f present among the rows of symbol c before row i,
\* missing when there is none
OwnLastBefore(df, f, c, i) ==
    LET earlier == { j \in 1..(i - 1) : df[j].code = c /\ df[j][f] # NaN }
    IN  IF earlier = {} THEN NaN
        ELSE df[CHOOSE j \in earlier : \A h \in earlier : h <= j][f]

\* C8 as stated: a missing open/high/low/close/volume/amount is replaced by the
\* most recent earlier value of the field among the bars of the same symbol,
\* and stays missing when the symbol has no earlier value.
C8_AsStated ==
    proc_done # "" =>
        \A i \in 1..Len(batch) : \A n \in 1..Len(NumericColumns) :
            LET f == NumericColumns[n]
            IN  processed[i][f] =
                    IF batch[i][f] # NaN THEN batch[i][f]
                    ELSE OwnLastBefore(batch, f, batch[i].code, i)

\* C9: in a series of one symbol whose close is missing at position 2 and
\* present at positions 1 and 3, the processed close at position 2 is the close
\* of position 1, and every full moving-average window over position 2 is a
\* mean that counts this value as an observation.
C9_FillBeforeIndicators ==
    ( /\ proc_done # ""
      /\ Len(batch) >= 3
      /\ \A i \in 1..Len(batch) : batch[i].code = batch[1].code
      /\ batch[1].close # NaN
      /\ batch[2].close = NaN
      /\ batch[3].close # NaN ) =>
        /\ processed[2].close = batch[1].close
        /\ \A p \in Periods : \A i \in p..Len(batch) :
              (i - p + 1 <= 2) =>
                  LET x == [j \in 1..i |-> IF j = 2 THEN batch[1].close
                                           ELSE processed[j].close]
                  IN  /\ processed[i].ma[p].n = p
                      /\ processed[i].ma[p].sum = WindowTotal(x, i - p + 1, i)

\* such a series was processed by process_min_data, and ma5 and ma250 are
\* means over position 2
C9_Witness ==
    /\ proc_done = "process_min_data"
    /\ Len(batch) >= 250
    /\ \A i \in 1..Len(batch) : batch[i].code = batch[1].code
    /\ batch[1].close # NaN
    /\ batch[2].close = NaN
    /\ batch[3].close # NaN
    /\ processed[5].ma[5].n = 5
    /\ processed[250].ma[250].n = 250

----------------------------------------------------------------------------
(* The catalog: what get_stock_list returned *)

\* the file of stem `code` of vipdoc/sh/lday is in the list
ShListed(code) ==
    \E i \in 1..Len(stocks) :
        stocks[i] = [code |-> code, name |-> <<"shA">> \o code]

\* the last six characters are a 6-digit code that begins with 60 or 688
ShBoardCode(code) ==
    /\ Len(code) >= 6
    /\ LET six == SubSeq(code, Len(code) - 5, Len(code))
       IN  /\ \A i \in 1..6 : six[i] \in Digits
           /\ \/ SubSeq(six, 1, 2) = <<"6", "0">>
              \/ SubSeq(six, 1, 3) = <<"6", "8", "8">>

\* C10 as stated: a file of the sh directory is in the list exactly when the
\* last six characters of its name are a 6-digit code beginning with 60 or
\* with 688; 688001 is in the list.
C10_AsStated ==
    (cat_state = "ok" /\ sh_exists) =>
        \A i \in 1..Len(sh_dir) : ShListed(sh_dir[i]) <=> ShBoardCode(sh_dir[i])

\* the file of stem `code` of vipdoc/sz/lday is in the list
SzListed(code) ==
    \E i \in 1..Len(stocks) :
        stocks[i] = [code |-> code, name |-> <<"szA">> \o code]

\* six characters that are digits and begin with 000, 001, 002 or 300
SzBoardSix(six) ==
    /\ Len(six) = 6
    /\ \A i \in 1..6 : six[i] \in Digits
    /\ SubSeq(six, 1, 3) \in { <<"0", "0", "0">>, <<"0", "0", "1">>,
                               <<"0", "0", "2">>, <<"3", "0", "0">> }

\* the last six characters of the name are such a code
SzBoardCode(code) ==
    Len(code) >= 6 /\ SzBoardSix(SubSeq(code, Len(code) - 5, Len(code)))

\* the same for a name of fewer than six characters filled up with zeros on
\* the left
SzBoardCodePadded(code) ==
    IF Len(code) >= 6 THEN SzBoardCode(code)
    ELSE SzBoardSix([i \in 1..(6 - Len(code)) |-> "0"] \o code)

\* C11 as stated: a file of the sz directory is in the list exactly when the
\* last six characters of its name are a 6-digit code beginning with 000, 001,
\* 002 or 300; every other file (900001) is left out.
C11_AsStated ==
    (cat_state = "ok" /\ sz_exists) =>
        \A i \in 1..Len(sz_dir) : SzListed(sz_dir[i]) <=> SzBoardCode(sz_dir[i])

\* C11, amended: a file of the sz directory is in the list exactly when the
\* last six characters of its name, or the whole name filled up to six
\* characters with zeros on the left when it is shorter, are a 6-digit code
\* beginning with 000, 001, 002 or 300; every other file (900001) is left out.
C11_SzAllowList ==
    (cat_state = "ok" /\ sz_exists) =>
        /\ \A i \in 1..Len(sz_dir) :
              SzListed(sz_dir[i]) <=> SzBoardCodePadded(sz_dir[i])
        /\ \A i \in 1..Len(stocks) :
              stocks[i].name[1] = "szA" =>
                  \E j \in 1..Len(sz_dir) : stocks[i].code = sz_dir[j]

\* a list was returned for an sz directory that holds a 300 code, which is in
\* the list, and 900001, which is not
C11_Witness ==
    /\ cat_state = "ok"
    /\ \E i \in 1..Len(sz_dir) :
          sz_dir[i] = <<"s", "z", "3", "0", "0", "7", "5", "0">> /\ SzListed(sz_dir[i])
    /\ \E i \in 1..Len(sz_dir) :
          sz_dir[i] = <<"s", "z", "9", "0", "0", "0", "0", "1">> /\ ~SzListed(sz_dir[i])

\* C12 as stated: get_stock_list raises the not-found error exactly when
\* neither directory exists or no file of the existing directories passes
\* the allow-list (000/001/002/300 for sz, 60/688 for sh); otherwise it
\* returns a non-empty list.
C12_AsStated ==
    cat_state # "scan" =>
        LET nonePasses ==
                /\ \A i \in 1..Len(sz_dir) : ~SzBoardCodePadded(sz_dir[i])
                /\ \A i \in 1..Len(sh_dir) : ~ShBoardCode(sh_dir[i])
        IN  /\ cat_state = "FileNotFoundError" <=>
                  ((~sz_exists /\ ~sh_exists) \/ nonePasses)
            /\ cat_state # "FileNotFoundError" =>
                  (cat_state = "ok" /\ Len(stocks) > 0)

----------------------------------------------------------------------------
(* The date filters: what they kept *)

\* the day a row is dated
DayOf(r) ==
    IF "datetime" \in DOMAIN r THEN r.datetime \div MinutesPerDay
    ELSE r.date \div MinutesPerDay

\* C17 as stated: the date filter is inclusive on both bounds for daily and
\* intraday bars alike: it returns exactly the bars dated from the start day
\* to the end day (with start = end = 2024-01-02, all bars of 2024-01-02), and
\* an absent bound leaves its side open.
C17_AsStated ==
    flt_call.name # "" =>
        filtered = SelectSeq(series, LAMBDA r :
                       /\ flt_call.start_date # NoDate => DayOf(r) >= flt_call.start_date
                       /\ flt_call.end_date # NoDate => DayOf(r) <= flt_call.end_date)

----------------------------------------------------------------------------
(* The full-catalog runs: what happened to the symbols *)

\* main() is in, or past, a run over the whole catalog
FullCatalogRun ==
    /\ run_pc # "start"
    /\ storage
    /\ args.command \in { "minutes", "daily" }
    /\ args.code = <<>>

\* the names of the events of symbol i alone, in order
EventsOf(i) ==
    LET own == SelectSeq(events, LAMBDA e : e.syms = {i})
    IN  [k \in 1..Len(own) |-> own[k].ev]

\* the symbol's file was asked for
Attempted(i) ==
    \E k \in 1..Len(events) :
        events[k].syms = {i} /\ events[k].ev \in { "decode", "fail" }

\* C13: in a full-catalog run, once the catalog was obtained every symbol of
\* it is attempted in the end, whatever failed for the symbols before it, and
\* the driver reports success; the driver reports failure only when the
\* catalog could not be obtained.
C13_EverySymbolAttempted ==
    /\ [](FullCatalogRun /\ run_pc \in { "batch", "exit" } /\ catalog # <<>> =>
            /\ \A i \in 1..Len(catalog) : Attempted(i)
            /\ batch_ret \in { "True", "returned" })
    /\ [](batch_ret \in { "False", "raised" } => catalog = <<>>)
    /\ \A i \in 1..MaxSymbols :
          (run_pc = "loop" /\ Len(catalog) >= i) ~> Attempted(i)
    /\ (run_pc = "loop") ~> (run_pc = "exit")

\* a minutes run over two symbols ended: the first symbol failed, the second
\* was handed to persistence, and the driver returned True
C13_Witness ==
    /\ run_pc = "exit"
    /\ args.command = "minutes"
    /\ Len(catalog) = 2
    /\ EventsOf(1)[Len(EventsOf(1))] = "fail"
    /\ EventsOf(2)[Len(EventsOf(2))] = "save"
    /\ batch_ret = "True"
    /\ exit_code = 0

\* C14 as stated: in a full-catalog minutes run a symbol whose 5-minute file
\* does not exist is passed over without an error-level log record.
C14_AsStated ==
    (FullCatalogRun /\ args.command = "minutes") =>
        \A k \in 1..Len(run_log) :
            (run_log[k].sym > 0 /\ run_log[k].what = "FileNotFoundError") =>
                run_log[k].level # "error"

StageOrder == << "discover", "decode", "aggregate", "indicators", "save" >>

\* C15: in a minutes run a symbol goes through discovered, decoded,
\* aggregated, indicators attached and handed off in that order, each once;
\* a failure ends its pass (nothing is retried), and its four persistence
\* calls are made only after decode, aggregation and indicators completed.
C15_StageOrder ==
    (FullCatalogRun /\ args.command = "minutes") =>
        /\ \A i \in 1..Len(catalog) :
              LET ev == EventsOf(i)
                  n  == Len(ev)
              IN  \/ n <= 5 /\ ev = SubSeq(StageOrder, 1, n)
                  \/ /\ 2 <= n /\ n <= 4
                     /\ ev[n] = "fail"
                     /\ SubSeq(ev, 1, n - 1) = SubSeq(StageOrder, 1, n - 1)
        /\ Len(calls) =
              4 * Cardinality({ i \in 1..Len(catalog) :
                                  EventsOf(i) = StageOrder })
        /\ \A k \in 1..Len(events) : events[k].syms \subseteq 1..cur

\* a minutes run ended in which one symbol went through all stages and
\* another failed in the aggregation
C15_Witness ==
    /\ run_pc = "exit"
    /\ args.command = "minutes"
    /\ Len(catalog) = 2
    /\ EventsOf(1) = << "discover", "decode", "fail" >>
    /\ EventsOf(2) = StageOrder
    /\ Len(calls) = 4

\* C16 as stated: in every full-catalog run the persistence calls of a symbol
\* come before the decode of every later symbol.
C16_AsStated ==
    FullCatalogRun =>
        \A p \in 1..Len(events) : \A q \in 1..Len(events) :
            ( /\ events[p].ev = "decode"
              /\ events[q].ev = "save"
              /\ \E j \in events[p].syms : \E k \in events[q].syms : k < j ) =>
                q < p

\* C18 as stated: in a full-catalog minutes run no bar before the start bound
\* or after the end bound is handed to persistence.
C18_AsStated ==
    (FullCatalogRun /\ args.command = "minutes") =>
        \A k \in 1..Len(calls) : \A n \in 1..Len(calls[k].df) :
            LET t == calls[k].df[n].datetime
            IN  /\ args.start_date # NoDate =>
                      t >= args.start_date * MinutesPerDay
                /\ args.end_date # NoDate =>
                      t < (args.end_date + 1) * MinutesPerDay

\* a row without its date column
BarOf(r) == [f \in (DOMAIN r) \ {"date"} |-> r[f]]

\* C19 as stated: without date bounds, a full-catalog minutes run hands the
\* same timeframes of a symbol to persistence, with the same bars and
\* indicators and to the same targets, as the single-symbol run of that symbol
\* and the same flags.
C19_AsStated ==
    ( /\ FullCatalogRun /\ args.command = "minutes" /\ run_pc = "exit"
      /\ Len(catalog) = 1
      /\ EventsOf(1) = StageOrder
      /\ args.start_date = NoDate /\ args.end_date = NoDate ) =>
        LET single == MinutesSingleCalls(
                          [args EXCEPT !.code = Last6(catalog[1])],
                          KindOf(disk, StemOfCode(catalog[1])))
        IN  /\ { calls[k].freq : k \in 1..Len(calls) } =
                   { single[k].freq : k \in 1..Len(single) }
            /\ \A k \in 1..Len(calls) : \A n \in 1..Len(single) :
                  calls[k].freq = single[n].freq =>
                      /\ calls[k].to_csv = single[n].to_csv
                      /\ calls[k].to_db = single[n].to_db
                      /\ Len(calls[k].df) = Len(single[n].df)
                      /\ \A m \in 1..Len(calls[k].df) :
                            BarOf(calls[k].df[m]) = BarOf(single[n].df[m])

\* C20 as stated: for every command and mode, with --csv-only no call writes
\* to the database, with --db-only no call writes a CSV file, and with neither
\* flag every call writes both.
C20_AsStated ==
    \A k \in 1..Len(calls) :
        /\ args.csv_only => ~calls[k].to_db
        /\ args.db_only => ~calls[k].to_csv
        /\ (~args.csv_only /\ ~args.db_only) =>
              (calls[k].to_csv /\ calls[k].to_db)

\* the run is over
Ended == run_pc = "exit"

\* the exception that reaches main() in a single-symbol run, "" when none
SingleRaised ==
    IF args.code = <<>> THEN ""
    ELSE IF args.command = "minutes"
    THEN MinRaises(KindOf(disk, MarketFolder(MarketOf(args)) \o args.code))
    ELSE DayRaises(KindOf(disk, MarketFolder(MarketOf(args)) \o Last6(args.code)))

\* the symbols of the catalog whose pass ended with a failure
FailedSymbols ==
    { i \in 1..Len(catalog) :
        \E k \in 1..Len(events) : events[k] = Event({i}, "fail") }

\* C21: a run that ended has exit code 1 exactly when the reader could not be
\* constructed, the catalog could not be obtained, or the decoder raised in a
\* single-symbol run, and 0 otherwise: after "no data" and, in a full-catalog
\* run, however many symbols failed.
C21_ExitCode ==
    Ended =>
        /\ exit_code \in { 0, 1 }
        /\ exit_code = 1 <=>
              \/ tdx_path # "root"
              \/ SingleRaised # ""
              \/ args.code = <<>> /\ catalog = <<>>
        /\ (\E k \in 1..Len(run_log) : run_log[k] = RunLog("warning", 0, "no data"))
              => exit_code = 0
        /\ (FullCatalogRun /\ catalog # <<>>) => exit_code = 0

\* a full-catalog run ended with exit code 0 although every symbol failed
C21_Witness ==
    /\ Ended
    /\ FullCatalogRun
    /\ Len(catalog) = MaxSymbols
    /\ FailedSymbols = 1..MaxSymbols
    /\ exit_code = 0

\* C22: when the data root is unset or does not exist the run ends with exit
\* code 1 and nothing else happened: the storage was not constructed, no
\* catalog was asked for, no file decoded and no persistence call made.
C22_ConfigError ==
    (run_pc # "start" /\ tdx_path # "root") =>
        /\ Ended
        /\ exit_code = 1
        /\ ~storage
        /\ catalog = <<>> /\ batch_ret = ""
        /\ events = <<>>
        /\ calls = <<>>
        /\ run_log = << RunLog("error", 0, "init") >>

\* a run ended on a data root that does not exist
C22_Witness ==
    /\ Ended
    /\ tdx_path = "absent"
    /\ args.command = "minutes"
    /\ exit_code = 1

\* the number of events of that kind a symbol has
EventCount(i, ev) ==
    Cardinality({ k \in 1..Len(events) : events[k] = Event({i}, ev) })

\* C23 as stated: in a full-catalog minutes run a symbol is handed to
\* persistence at most once, with one call per timeframe, and the driver's
\* report of a symbol ("stored", the True it returns) is made only when no
\* persistence call of the symbol reported a failure.
C23_AsStated ==
    (FullCatalogRun /\ args.command = "minutes") =>
        /\ \A i \in 1..Len(catalog) : EventCount(i, "save") <= 1
        /\ \A f \in { 5, 15, 30, 60 } :
              Cardinality({ k \in 1..Len(calls) : calls[k].freq = f }) =
              Cardinality({ i \in 1..Len(catalog) : EventCount(i, "save") = 1 })
        /\ \A i \in 1..Len(catalog) :
              (\E k \in 1..Len(run_log) : run_log[k] = RunLog("error", i, "save")) =>
                  ~(\E k \in 1..Len(run_log) : run_log[k] = RunLog("info", i, "stored"))

\* a table's time stamps go strictly up
StrictlyIncreasing(df) ==
    \A i \in 1..Len(df) : \A j \in 1..Len(df) :
        i < j => df[i].datetime < df[j].datetime

\* the file holds two records of one time stamp, or a record before an
\* earlier one
Disordered(file) ==
    \E i \in 1..Len(file) : \E j \in 1..Len(file) :
        i < j /\ file[j].datetime <= file[i].datetime

\* C24: the 15, 30 and 60-minute tables read_min_data returns and those
\* process_single_stock_min_data hands to persistence have strictly increasing
\* time stamps, whatever the order and the duplicates of the file's records.
C24_StrictlyIncreasing ==
    /\ \A k \in 1..Len(data_list) : StrictlyIncreasing(data_list[k])
    /\ \A k \in 1..Len(saved) :
          saved[k].freq \in Widths => StrictlyIncreasing(saved[k].df)

\* a file with records out of order and a duplicate time stamp was
\* aggregated into a table of two bars or more
C24_Witness ==
    /\ pc = "done"
    /\ entry = "read_min_data"
    /\ Disordered(lc5)
    /\ \E i \in 1..Len(lc5) : \E j \in 1..Len(lc5) :
          i # j /\ lc5[i].datetime = lc5[j].datetime
    /\ \E i \in 1..Len(lc5) : \E j \in 1..Len(lc5) :
          i < j /\ lc5[j].datetime < lc5[i].datetime
    /\ Len(data_list) = 3
    /\ Len(data_list[1]) >= 2

\* no record of the file has a missing field
NoMissingField(file) ==
    \A i \in 1..Len(file) : \A f \in DOMAIN file[i] : file[i][f] # NaN

\* the bars of a finer table that lie in the W minutes from L on
Within(fine, L, W) ==
    SelectSeq(fine, LAMBDA r : L <= r.datetime /\ r.datetime < L + W)

\* the coarse table is what aggregating the finer table by W minutes gives:
\* a bar for every span of W minutes that holds a finer bar, with the first
\* open, the highest high, the lowest low, the last close and the totals
Cascades(fine, coarse, W) ==
    /\ { coarse[k].datetime : k \in 1..Len(coarse) } =
          { fine[k].datetime - (fine[k].datetime % W) : k \in 1..Len(fine) }
    /\ \A k \in 1..Len(coarse) :
          LET m == Within(fine, coarse[k].datetime, W)
          IN  /\ Len(m) > 0
              /\ coarse[k].open = m[1].open
              /\ coarse[k].close = m[Len(m)].close
              /\ \A n \in 1..Len(m) : /\ m[n].high <= coarse[k].high
                                        /\ m[n].low >= coarse[k].low
              /\ \E n \in 1..Len(m) : m[n].high = coarse[k].high
              /\ \E n \in 1..Len(m) : m[n].low = coarse[k].low
              /\ coarse[k].volume = Total(Column(m, "volume"))
              /\ coarse[k].amount = Total(Column(m, "amount"))

\* C26: for a file without a missing field, the 60-minute table is the
\* aggregate of the 30-minute table hour by hour and the 30-minute table the
\* aggregate of the 15-minute table half hour by half hour.
C26_Cascade ==
    (pc = "done" /\ entry = "read_min_data" /\ raised = ""
        /\ NoMissingField(lc5)) =>
        /\ Cascades(data_list[2], data_list[3], 60)
        /\ Cascades(data_list[1], data_list[2], 30)

\* a file without a missing field gave an hour of two half-hour bars and a
\* half hour of two quarter-hour bars
C26_Witness ==
    /\ pc = "done" /\ entry = "read_min_data" /\ raised = ""
    /\ NoMissingField(lc5)
    /\ \E k \in 1..Len(data_list[3]) :
          Len(Within(data_list[2], data_list[3][k].datetime, 60)) = 2
    /\ \E k \in 1..Len(data_list[2]) :
          Len(Within(data_list[1], data_list[2][k].datetime, 30)) = 2

\* C28 as stated: read_min_data finds the file of a code exactly when
\* read_5min_data does (the file named by the market folder and the last six
\* characters of the code).
C28_AsStated ==
    [][\A q \in Requests :
          ReadMinData(q[1], q[2]) =>
              ((raised' = "FileNotFoundError") <=>
               (Read5MinRaises(q[1], q[2]) = "FileNotFoundError"))]_vars

\* the values a processor function may put in place of a missing one
Filled == { "open", "high", "low", "close", "volume", "amount" }

\* the processed bar is its input bar with missing values filled and the
\* indicators appended
SameBarProcessed(in, out) ==
    /\ DOMAIN in \subseteq DOMAIN out
    /\ (DOMAIN out) \ (DOMAIN in) \subseteq { "ma" }
    /\ \A f \in DOMAIN in :
          \/ out[f] = in[f]
          \/ f \in Filled /\ in[f] = NaN

\* the rows of a table are rows of another, in its order
RECURSIVE IsSubSeq(_, _)
IsSubSeq(a, b) ==
    IF a = <<>> THEN TRUE
    ELSE IF b = <<>> THEN FALSE
    ELSE IF Head(a) = Head(b) THEN IsSubSeq(Tail(a), Tail(b))
    ELSE IsSubSeq(a, Tail(b))

RECURSIVE Flatten(_)
Flatten(batches) ==
    IF batches = <<>> THEN <<>> ELSE Head(batches) \o Flatten(Tail(batches))

\* the least k with k * b >= n
CeilDiv(n, b) == CHOOSE k \in 0..n : k * b >= n /\ (k = 0 \/ (k - 1) * b < n)

\* C30: a save_to_database that returned True on n rows with batch size b,
\* n > b >= 1, made ceil(n/b) writes that hold every row once and in input
\* order, none empty and all but the last of b rows; with 1 <= n <= b it made
\* one write of the whole table.
C30_BatchPartition ==
    (db_pc = "done" /\ db_ret = "True") =>
        LET n == Len(db_df)
            b == db_batch_size
        IN  /\ (n > b /\ b >= 1) =>
                  /\ Len(db_written) = CeilDiv(n, b)
                  /\ Flatten(db_written) = db_df
                  /\ \A i \in 1..Len(db_written) :
                        /\ Len(db_written[i]) >= 1
                        /\ i < Len(db_written) => Len(db_written[i]) = b
                        /\ db_written[i] =
                              [k \in 1..Len(db_written[i]) |-> (i - 1) * b + k]
            /\ (1 <= n /\ n <= b) => db_written = << db_df >>

\* seven rows were written in batches of three: two of three rows and one of
\* one row
C30_Witness ==
    /\ db_pc = "done" /\ db_ret = "True"
    /\ Len(db_df) = 7 /\ db_batch_size = 3
    /\ Len(db_written) = 3
    /\ Len(db_written[3]) = 1

\* the time stamp of a bar handed to persistence
TimeOf(r) == IF "datetime" \in DOMAIN r THEN r.datetime ELSE r.date

\* the closes of the whole series a persisted table of that timeframe was
\* cut from, by time stamp: the file's bars (1: daily, 5), or their
\* aggregation
WholeSeries(freq) ==
    IF freq = 1 THEN DayFile
    ELSE IF freq = 5 THEN MinFile
    ELSE Resample(DecodedFrom(MinFile, 0, CodeA), freq, FALSE)

\* the moving average of period p at place i of a column of closes
WholeAverage(closes, i, p) ==
    IF i < p THEN MaNaN
    ELSE [sum |-> Total(SubSeq(closes, i - p + 1, i)), n |-> p]

\* the bars of a persisted table carry the averages of the whole series
CarriesWholeAverages(call) ==
    LET whole  == Table(WholeSeries(call.freq))
        closes == Table(Column(whole, "close"))
    IN  \A n \in 1..Len(call.df) :
            LET r == call.df[n]
                i == CHOOSE k \in 1..Len(whole) : whole[k].datetime = TimeOf(r)
            IN  /\ "ma" \in DOMAIN r
                /\ \A p \in Periods : r.ma[p] = WholeAverage(closes, i, p)

\* C27: every bar handed to persistence by a daily or minutes run, single
\* symbol or full catalog, carries the moving averages it has in the whole
\* series of its symbol, bars before the start bound included.
C27_IndicatorsBeforeFilter ==
    args.command \in { "minutes", "daily" } =>
        \A k \in 1..Len(calls) : CarriesWholeAverages(calls[k])

\* a run with a start bound handed over a bar of the bound's day whose
\* 5-period average is there: its window reaches back before the bound
C27_Witness ==
    /\ Ended
    /\ args.start_date = LastDay
    /\ \E k \in 1..Len(calls) : \E n \in 1..Len(calls[k].df) :
          /\ TimeOf(calls[k].df[n]) >= LastDay * MinutesPerDay
          /\ calls[k].df[n].ma[5] # MaNaN
          /\ CarriesWholeAverages(calls[k])

\* what save_stock_info / save_daily_data / save_minute_data do with a call:
\* save_to_csv writes a file, save_to_database is given the table, unless
\* the table is empty
CsvWritten(call) == call.to_csv /\ Len(call.df) > 0
DbWritten(call) == call.to_db /\ Len(call.df) > 0

\* the run is one of stock-list, daily and single-symbol minutes
FlagCommand ==
    \/ args.command \in { "stock-list", "daily" }
    \/ args.command = "minutes" /\ args.code # <<>>

\* C29: with --csv-only and --db-only together, a stock-list, daily or
\* single-symbol minutes run that read its data writes no CSV file and no
\* database table, and ends with exit code 0.
C29_BothFlags ==
    (Ended /\ storage /\ FlagCommand /\ args.csv_only /\ args.db_only) =>
        /\ \A k \in 1..Len(calls) :
              ~CsvWritten(calls[k]) /\ ~DbWritten(calls[k])
        /\ (\A k \in 1..Len(run_log) : run_log[k].level # "error") =>
              exit_code = 0

\* a daily run with both flags made its save_daily_data call on a table of
\* bars and ended with exit code 0
C29_Witness ==
    /\ Ended
    /\ args.command = "daily"
    /\ args.csv_only /\ args.db_only
    /\ Len(calls) = 1
    /\ Len(calls[1].df) > 0
    /\ exit_code = 0

====
